---------------------------- MODULE Spec2Model ----------------------------
(***************************************************************************)
(* State machine of the paint-system gateway (PaintSystemController of     *)
(* src/src/index.ts, the settings store of src/unnamed/part_003): serial   *)
(* telegrams update the system state and are fanned out to the WebSocket   *)
(* subscribers; subscriber commands are validated and written to the       *)
(* serial link by async handlers that are suspended at every await.        *)
(*                                                                         *)
(* Node runs one callback to completion before the next one starts, so     *)
(* every action below is one callback (an event handler, or the            *)
(* continuation of an async handler after an await).                       *)
(***************************************************************************)
EXTENDS Integers, Sequences, FiniteSets, TLC

VARIABLES
  status,    \* this.status, the SystemState
  clients,   \* this.clients, the set of subscriber sockets
  sock,      \* per socket: readyState and how far its connection handler got
  settings,  \* SettingsManager.settings (speeds, maintenance, pattern)
  configs,   \* the saved configuration profiles (the saved_configs directory)
  portOpen,  \* this.port.isOpen
  link,      \* the line handed to port.write last, who wrote it and who wrote before
  tasks,     \* the async command handlers suspended at an await
  reconnect, \* the link supervisor: reconnectAttempts, reconnectTimer, the timers
             \* pending and the opens in flight, the data handlers on the open port
  ev,        \* the event the last callback handled
  sent       \* the messages that callback sent to the subscribers, in order

vars == <<status, clients, sock, settings, configs, portOpen, link, tasks, reconnect,
          ev, sent>>

---------------------------------------------------------------------------
(* JavaScript values that a field may hold besides its declared type.      *)

Undefined == [t |-> "undefined"]
NaN       == [t |-> "NaN"]
Num(n)    == [t |-> "number", v |-> n]
Str(s)    == [t |-> "string", v |-> s]
Bool(b)   == [t |-> "boolean", v |-> b]

\* A number is held in tenths, so that one decimal place is exact:
\* Num(904) is 90.4 and Whole(9) is 9.
Whole(k) == Num(10 * k)

IsNum(j) == j.t = "number"

\* The controller's row number is taken over as it is.
SameRow(j) == IF IsNum(j) THEN j ELSE NaN

\* JavaScript `j - 1`: undefined - 1 and NaN - 1 are NaN.
MinusOne(j) == IF IsNum(j) THEN Num(j.v - 10) ELSE NaN

\* JavaScript truthiness of the values used here.
Truthy(j) ==
  CASE j.t = "undefined" -> FALSE
    [] j.t = "NaN"       -> FALSE
    [] j.t = "number"    -> j.v # 0
    [] j.t = "string"    -> j.v # <<>>
    [] j.t = "boolean"   -> j.v
    [] j.t = "object"    -> TRUE
    [] j.t = "null"      -> FALSE

---------------------------------------------------------------------------
(* A line is a sequence of lexemes (strings).  The string operations of   *)
(* the parser are modelled on lexemes: startsWith compares the first       *)
(* lexeme, a regular expression matches a run of consecutive lexemes,      *)
(* split cuts at the separator lexemes.  A lexeme that ends in ':' is the  *)
(* only place a colon occurs.                                              *)

DigitLexemes == {"0", "1", "2", "3"}

DigitValue(tok) ==
  CASE tok = "0" -> 0 [] tok = "1" -> 1 [] tok = "2" -> 2 [] tok = "3" -> 3

ColonLexemes ==
  {"State changed:", "Position:", "Temperature:", "WARNING:", "LIMIT_CLEAR:",
   "LIMIT:", "Position - X:", "inches, Y:", "Servo - Angle:"}

\* The text of a colon lexeme before its colon.
Stem(tok) ==
  CASE tok = "State changed:" -> "State changed"
    [] tok = "Position:"      -> "Position"
    [] tok = "Temperature:"   -> "Temperature"
    [] tok = "WARNING:"       -> "WARNING"
    [] tok = "LIMIT_CLEAR:"   -> "LIMIT_CLEAR"
    [] tok = "LIMIT:"         -> "LIMIT"
    [] tok = "Position - X:"  -> "Position - X"
    [] tok = "inches, Y:"     -> "inches, Y"
    [] tok = "Servo - Angle:" -> "Servo - Angle"

StartsWith(line, tok) == Len(line) >= 1 /\ line[1] = tok

Includes(line, tok) == \E i \in 1..Len(line) : line[i] = tok

\* Positions of the separator lexemes of `seps` in `line`.
SepPositions(line, seps) == {i \in 1..Len(line) : line[i] \in seps}

\* line.split(sep): the pieces between the separator lexemes.
RECURSIVE SplitAt(_, _)
SplitAt(line, sep) ==
  LET ps == SepPositions(line, {sep})
  IN IF ps = {} THEN <<line>>
     ELSE LET p == CHOOSE i \in ps : \A j \in ps : i <= j
          IN <<SubSeq(line, 1, p - 1)>> \o SplitAt(SubSeq(line, p + 1, Len(line)), sep)

\* line.split(":")[1].trim(): the text between the first and the second
\* colon; undefined when the line holds no colon.
ColonField(line) ==
  LET ps == SepPositions(line, ColonLexemes)
  IN IF ps = {} THEN Undefined
     ELSE LET p == CHOOSE i \in ps : \A j \in ps : i <= j
              later == {i \in ps : i > p}
          IN IF later = {} THEN Str(SubSeq(line, p + 1, Len(line)))
             ELSE LET q == CHOOSE i \in later : \A j \in later : i <= j
                  IN Str(Append(SubSeq(line, p + 1, q - 1), Stem(line[q])))

\* parseInt(s) / parseFloat(s): the leading number of the text, else NaN.
ParseInt(j) ==
  IF j.t = "string" /\ Len(j.v) >= 1 /\ j.v[1] \in DigitLexemes
  THEN Whole(DigitValue(j.v[1])) ELSE NaN

\* Number(s): the whole text must be a number; the empty text is 0.
ToNumber(j) ==
  CASE j.t = "undefined" -> NaN
    [] j.t = "number" -> j
    [] j.t = "string" /\ j.v = <<>> -> Whole(0)
    [] j.t = "string" /\ Len(j.v) = 1 /\ j.v[1] \in DigitLexemes -> Whole(DigitValue(j.v[1]))
    [] j.t = "null" -> Whole(0)
    [] j.t = "boolean" -> IF j.v THEN Whole(1) ELSE Whole(0)
    [] OTHER -> NaN

\* seq[i] of a JavaScript array: undefined past the end.
At(seq, i) == IF i <= Len(seq) THEN Str(seq[i]) ELSE Undefined

---------------------------------------------------------------------------
(* The system state and the fan-out to the subscribers.                    *)

SystemStatus ==
  {"IDLE", "HOMING_X", "HOMING_Y", "HOMING_ROTATION", "HOMED", "STOPPED",
   "PAUSED", "EXECUTING_PATTERN", "ERROR", "CYCLE_COMPLETE", "CLEANING",
   "PAINTING_SIDE", "MANUAL_ROTATING", "UNKNOWN"}

InitialPatternProgress ==
  [command |-> Whole(0), total_commands |-> Whole(0), row |-> Whole(0),
   pattern |-> Str(<<>>), single_side |-> Bool(FALSE), completed_rows |-> <<>>,
   total_rows |-> Whole(9), duration |-> Whole(0), axis |-> Undefined]

InitialStatus ==
  [status |-> "IDLE",
   position |-> [x |-> Whole(0), y |-> Whole(0)],
   systemInfo |-> [temperature |-> Whole(24), uptime |-> 0],
   lastSerialMessage |-> <<>>,
   patternProgress |-> InitialPatternProgress,
   pressurePotActive |-> FALSE,
   limitSwitches |-> [x |-> [min |-> FALSE, max |-> FALSE],
                      y |-> [min |-> FALSE, max |-> FALSE]],
   servoAngle |-> Whole(0)]

\* The subscribers a broadcast reaches: members of this.clients whose
\* readyState is OPEN.
OpenClients == {c \in clients : sock[c].readyState = "OPEN"}

\* The running callback: the system state it has reached and the
\* messages it has sent so far.
Callback(st) == [status |-> st, sent |-> <<>>]

BroadcastToAll(m, type, payload) ==
  [m EXCEPT !.sent = Append(@, [to |-> OpenClients, type |-> type, payload |-> payload])]

\* A stale snapshot: the state before the update is broadcast.
UpdateStatusStale(m, update) ==
  BroadcastToAll([m EXCEPT !.status = update @@ m.status], "STATE_UPDATE", m.status)

\* The state is replaced and nobody is told.
UpdateStatusQuiet(m, update) == [m EXCEPT !.status = update @@ m.status]

\* The update is spread over the initial state, not over the current one.
UpdateStatusReset(m, update) ==
  LET st == update @@ InitialStatus
  IN BroadcastToAll([m EXCEPT !.status = st], "STATE_UPDATE", st)

\* this.status = {...this.status, ...update}; broadcastStatusUpdate()
UpdateStatus(m, update) ==
  LET st == update @@ m.status
  IN BroadcastToAll([m EXCEPT !.status = st], "STATE_UPDATE", st)

Warning(title, message, severity) ==
  [title |-> title, message |-> message, severity |-> severity]

---------------------------------------------------------------------------
(* parseStatusMessage: EVENT_TYPE|key1=value1|key2=value2                  *)

Null == [t |-> "null"]

EmptyPatternStatus ==
  [command |-> Undefined, total_commands |-> Undefined, row |-> Undefined,
   pattern |-> Undefined, single_side |-> Undefined, details |-> Undefined,
   duration |-> Undefined, axis |-> Undefined]

\* One key=value part applied to the partial status.
ParseKeyValue(acc, part) ==
  LET kv    == SplitAt(part, "=")
      key   == kv[1]
      value == At(kv, 2)
  IN CASE key = <<"command">>        -> [acc EXCEPT !.command = ParseInt(value)]
       [] key = <<"total_commands">> -> [acc EXCEPT !.total_commands = ParseInt(value)]
       [] key = <<"row">>            -> [acc EXCEPT !.row = ParseInt(value)]
       [] key = <<"pattern">>        -> [acc EXCEPT !.pattern = value]
       [] key = <<"single_side">>    -> [acc EXCEPT !.single_side = Bool(value = Str(<<"true">>))]
       [] key = <<"details">>        -> [acc EXCEPT !.details = value]
       [] key = <<"duration_ms">>    -> [acc EXCEPT !.duration = ParseInt(value)]
       [] key = <<"movement_axis">>  ->
            [acc EXCEPT !.axis = IF Truthy(value)
                                 THEN (IF value = Str(<<"X">>) THEN Str(<<"X">>) ELSE Str(<<"Y">>))
                                 ELSE Undefined]
       [] OTHER -> acc

RECURSIVE ParseKeyValues(_, _, _)
ParseKeyValues(parts, i, acc) ==
  IF i > Len(parts) THEN acc
  ELSE ParseKeyValues(parts, i + 1, ParseKeyValue(acc, parts[i]))

ParseStatusMessage(line) ==
  LET parts == SplitAt(line, "|")
  IN IF Len(parts) < 2 THEN Null
     ELSE [t |-> "parsed", eventType |-> parts[1],
           status |-> ParseKeyValues(parts, 2, EmptyPatternStatus)]

---------------------------------------------------------------------------
(* processSerialResponse: one trimmed line of the controller.              *)

\* /Position - X: ([\d.]+) inches, Y: ([\d.]+) inches/ anywhere in the line:
\* the places where it matches.
PositionMatches(line) ==
  {i \in 1..Len(line) :
     /\ i + 4 <= Len(line)
     /\ line[i] = "Position - X:" /\ line[i + 1] \in DigitLexemes
     /\ line[i + 2] = "inches, Y:" /\ line[i + 3] \in DigitLexemes
     /\ line[i + 4] = "inches"}

\* /LIMIT:([XY])_(MIN|MAX)/ anywhere in the line.
LimitLexemes == {"X_MIN", "X_MAX", "Y_MIN", "Y_MAX"}

LimitMatches(line) ==
  {i \in 1..Len(line) :
     i + 1 <= Len(line) /\ line[i] = "LIMIT:" /\ line[i + 1] \in LimitLexemes}

\* /Servo - Angle: (\d+)/ anywhere in the line.
ServoMatches(line) ==
  {i \in 1..Len(line) :
     i + 1 <= Len(line) /\ line[i] = "Servo - Angle:" /\ line[i + 1] \in DigitLexemes}

First(S) == CHOOSE i \in S : \A j \in S : i <= j

\* The "State changed:" branch.
StateNames ==
  {"IDLE", "HOMING_X", "HOMING_Y", "HOMING_ROTATION", "STOPPED", "PAUSED",
   "EXECUTING_PATTERN", "ERROR", "CYCLE_COMPLETE", "CLEANING", "PAINTING_SIDE",
   "MANUAL_ROTATING", "PRIMING"}

\* The reset keeps the name of a pattern.
HomedPatternProgressFront ==
  [command |-> Whole(0), total_commands |-> Whole(0), row |-> Whole(0),
   total_rows |-> Whole(9), completed_rows |-> <<>>, single_side |-> Bool(FALSE),
   pattern |-> Str(<<"FRONT">>), duration |-> Whole(0), axis |-> Undefined]

HomedPatternProgress ==
  [command |-> Whole(0), total_commands |-> Whole(0), row |-> Whole(0),
   total_rows |-> Whole(9), completed_rows |-> <<>>, single_side |-> Bool(FALSE),
   pattern |-> Str(<<>>), duration |-> Whole(0), axis |-> Undefined]

\* The reported name is taken over without the switch over the known names.
StateChangedUnchecked(m, line) ==
  LET state == ColonField(line)
  IN UpdateStatus(m, [status |-> IF state.t = "string" /\ Len(state.v) = 1
                                 THEN state.v[1] ELSE "UNKNOWN"])

StateChanged(m, line) ==
  LET state == ColonField(line)
  IN CASE state = Str(<<"HOMED">>) ->
            UpdateStatus(m, [status |-> "HOMED", patternProgress |-> HomedPatternProgress])
       [] state.t = "string" /\ Len(state.v) = 1 /\ state.v[1] \in StateNames ->
            UpdateStatus(m, [status |-> state.v[1]])
       [] OTHER -> UpdateStatus(m, [status |-> "UNKNOWN"])

\* A completed row is appended although it is already listed.
CompletedRowsAlways(rows, row) == Append(rows, MinusOne(row))

\* completed_rows after SPRAY_COMPLETE: row - 1 is appended unless the
\* array includes it (Array.includes finds NaN too).
CompletedRows(rows, row) ==
  IF \E i \in 1..Len(rows) : rows[i] = MinusOne(row)
  THEN rows ELSE Append(rows, MinusOne(row))

\* The details are passed on as they are, without the default.
ErrorMessageRaw(s) == s.details

\* status.details || "Unknown error occurred"
ErrorMessage(s) ==
  IF Truthy(s.details) THEN s.details ELSE Str(<<"Unknown error occurred">>)

\* The pattern always ends in HOMED.
PatternCompleteStatusHomed(s) == "HOMED"

\* status.single_side ? SystemStatus.IDLE : SystemStatus.HOMED
PatternCompleteStatus(s) == IF Truthy(s.single_side) THEN "IDLE" ELSE "HOMED"

\* The switch over the event type of a parsed status message.
KeyedEvent(m, parsed) ==
  LET e  == parsed.eventType
      s  == parsed.status
      pp == m.status.patternProgress
  IN CASE e = <<"PATTERN_START">> ->
            UpdateStatus(m,
              [status |-> "EXECUTING_PATTERN",
               patternProgress |->
                 [pp EXCEPT !.command = s.command, !.total_commands = s.total_commands,
                            !.row = MinusOne(s.row), !.single_side = s.single_side,
                            !.pattern = s.pattern]])
       [] e = <<"PATTERN_COMPLETE">> ->
            UpdateStatus(m,
              [status |-> PatternCompleteStatus(s),
               patternProgress |-> [pp EXCEPT !.command = Whole(0), !.completed_rows = <<>>]])
       [] e = <<"SPRAY_COMPLETE">> ->
            IF s.row # Undefined
            THEN UpdateStatus(m,
                   [patternProgress |->
                      [pp EXCEPT !.completed_rows = CompletedRows(pp.completed_rows, s.row)]])
            ELSE m
       [] e = <<"SPRAY_START">> ->
            UpdateStatus(m, [patternProgress |-> [pp EXCEPT !.row = MinusOne(s.row)]])
       [] e \in {<<"MOVE_X">>, <<"MOVE_Y">>} ->
            UpdateStatus(m,
              [patternProgress |->
                 [pp EXCEPT !.command = s.command, !.total_commands = s.total_commands,
                            !.row = MinusOne(s.row), !.single_side = s.single_side,
                            !.pattern = s.pattern, !.axis = s.axis,
                            !.duration = s.duration]])
       [] e = <<"ERROR">> ->
            BroadcastToAll(UpdateStatus(m, [status |-> "ERROR"]), "WARNING",
              Warning("Error", ErrorMessage(s), "high"))
       [] OTHER -> m

\* The chain  Position: / Temperature: / WARNING:  of the fall-through part.
LegacyChain(m, line) ==
  CASE StartsWith(line, "Position:") ->
         LET xy == SplitAt(ColonField(line).v, ",")
         IN UpdateStatus(m, [position |-> [x |-> ToNumber(At(xy, 1)),
                                           y |-> ToNumber(At(xy, 2))]])
    [] StartsWith(line, "Temperature:") ->
         UpdateStatus(m,
           [systemInfo |-> [m.status.systemInfo EXCEPT
                              !.temperature = ParseInt(ColonField(line))]])
    [] StartsWith(line, "WARNING:") ->
         BroadcastToAll(m, "WARNING", Warning("WARNING", Str(Tail(line)), "low"))
    [] OTHER -> m

LimitClear(m, line) ==
  LET axis == ColonField(line)
      ls   == m.status.limitSwitches
  IN UpdateStatus(m,
       [limitSwitches |->
          CASE axis = Str(<<"X">>) -> [ls EXCEPT !.x = [min |-> FALSE, max |-> FALSE]]
            [] axis = Str(<<"Y">>) -> [ls EXCEPT !.y = [min |-> FALSE, max |-> FALSE]]
            [] OTHER -> ls])

\* Every flag of the axis is raised, not only the one that was reached.
LimitTriggerWholeAxis(m, flag) ==
  LET ls == m.status.limitSwitches
  IN UpdateStatus(m,
       [limitSwitches |->
          IF flag \in {"X_MIN", "X_MAX"}
          THEN [ls EXCEPT !.x = [min |-> TRUE, max |-> TRUE]]
          ELSE [ls EXCEPT !.y = [min |-> TRUE, max |-> TRUE]]])

LimitTrigger(m, flag) ==
  LET ls == m.status.limitSwitches
  IN UpdateStatus(m,
       [limitSwitches |->
          CASE flag = "X_MIN" -> [ls EXCEPT !.x.min = TRUE]
            [] flag = "X_MAX" -> [ls EXCEPT !.x.max = TRUE]
            [] flag = "Y_MIN" -> [ls EXCEPT !.y.min = TRUE]
            [] flag = "Y_MAX" -> [ls EXCEPT !.y.max = TRUE]])

\* The checks after the status-message parse found nothing.
FallThrough(m, line) ==
  LET m2 == LegacyChain(m, line)
  IN CASE StartsWith(line, "LIMIT_CLEAR:") -> LimitClear(m2, line)
       [] ~StartsWith(line, "LIMIT_CLEAR:") /\ LimitMatches(line) # {} ->
            LimitTrigger(m2, line[First(LimitMatches(line)) + 1])
       [] ~StartsWith(line, "LIMIT_CLEAR:") /\ LimitMatches(line) = {}
            /\ ServoMatches(line) # {} ->
            LET angle == Whole(DigitValue(line[First(ServoMatches(line)) + 1]))
            IN BroadcastToAll(UpdateStatus(m2, [servoAngle |-> angle]),
                              "SERVO_UPDATE", [angle |-> angle])
       [] OTHER -> m2

\* The raw line is kept only when the line was recognised.
StoreRawLineIfRecognised(st, line) == st

\* this.status.lastSerialMessage = line, in place and without a broadcast.
StoreRawLine(st, line) == [st EXCEPT !.lastSerialMessage = line]

ProcessSerialResponse(st, line) ==
  LET m0 == Callback(StoreRawLine(st, line))
  IN IF PositionMatches(line) # {}
     THEN LET i == First(PositionMatches(line))
              x == Whole(DigitValue(line[i + 1]))
              y == Whole(DigitValue(line[i + 3]))
          IN BroadcastToAll(UpdateStatus(m0, [position |-> [x |-> x, y |-> y]]),
                            "POSITION_UPDATE", [x |-> x, y |-> y])
     ELSE LET m1 == IF StartsWith(line, "Pressure pot")
                    THEN UpdateStatus(m0, [pressurePotActive |-> ~Includes(line, "deactivated")])
                    ELSE m0
          IN IF StartsWith(line, "State changed:") THEN StateChanged(m1, line)
             ELSE LET parsed == ParseStatusMessage(line)
                  IN IF parsed # Null THEN KeyedEvent(m1, parsed)
                     ELSE FallThrough(m1, line)

---------------------------------------------------------------------------
(* The settings store (SettingsManager) and the outbound lines.            *)

Sides == {"front", "right", "back", "left", "lip"}

SideOrder == <<"front", "right", "back", "left", "lip">>

XY(x, y) == [x |-> x, y |-> y]

Offset(x, y, angle) == [x |-> x, y |-> y, angle |-> angle]

\* DEFAULT_SETTINGS (the lip travel distance 4.415, 27.49 is held as 4.4, 27.5).
DefaultSettings ==
  [speeds |-> [s \in Sides |-> Whole(100)],
   maintenance |-> [primeTime |-> Whole(5), cleanTime |-> Whole(10),
                    backWashTime |-> Whole(15)],
   pattern |->
     [initialOffsets |-> [s \in Sides |-> Offset(Whole(0), Whole(0), Whole(0))],
      travelDistance |-> [horizontal |-> XY(Whole(10), Whole(0)),
                          vertical |-> XY(Whole(10), Whole(2)),
                          lip |-> XY(Num(44), Num(275))],
      rows |-> XY(Whole(6), Whole(8)),
      enabledSides |-> [s \in Sides |-> TRUE]]]

\* {...object, ...partial}: the keys of partial replace or extend those of object.
Merge(object, partial) == partial @@ object

\* An outbound line: its keyword and its arguments.
Line(keyword, args) == [keyword |-> keyword, args |-> args]

\* n.toFixed(2): two decimals, as text.
ToFixed2(j) == [t |-> "text", hundredths |-> 10 * j.v]

\* x.toUpperCase() of a string.
ToUpperCase(j) == [t |-> "upper", of |-> j.v]

\* patternConfig.<group>.<member>.x and .y can be read.
HasXY(group, member) ==
  /\ group # Undefined
  /\ member \in DOMAIN group
  /\ group[member] # Undefined

\* The lines of the pattern configuration, by name; Undefined where
\* building the line reads a property of undefined (a TypeError).
PatternLine(which, pc) ==
  CASE which = "SET_HORIZONTAL_TRAVEL" ->
         IF HasXY(pc.travelDistance, "horizontal")
         THEN Line(which, <<ToFixed2(pc.travelDistance.horizontal.x),
                            ToFixed2(pc.travelDistance.horizontal.y)>>)
         ELSE Undefined
    [] which = "SET_VERTICAL_TRAVEL" ->
         IF HasXY(pc.travelDistance, "vertical")
         THEN Line(which, <<ToFixed2(pc.travelDistance.vertical.x),
                            ToFixed2(pc.travelDistance.vertical.y)>>)
         ELSE Undefined
    [] which = "SET_LIP_TRAVEL" ->
         IF HasXY(pc.travelDistance, "lip")
         THEN Line(which, <<ToFixed2(pc.travelDistance.lip.x),
                            ToFixed2(pc.travelDistance.lip.y)>>)
         ELSE Undefined
    [] which = "SET_GRID" -> Line(which, <<pc.rows.x, pc.rows.y>>)
    [] which = "SET_ENABLED_SIDES" ->
         Line(which, [i \in 1..5 |-> Bool(pc.enabledSides[SideOrder[i]])])
    [] which \in Sides ->
         Line("SET_OFFSET", <<Str(<<which>>), ToFixed2(pc.initialOffsets[which].x),
                              ToFixed2(pc.initialOffsets[which].y),
                              ToFixed2(pc.initialOffsets[which].angle)>>)

\* The push without the enabled sides.
UpdatePushOrderNoSides ==
  <<"SET_HORIZONTAL_TRAVEL", "SET_VERTICAL_TRAVEL", "SET_LIP_TRAVEL", "SET_GRID",
    "front", "right", "back", "left", "lip">>

\* The order in which UPDATE_PATTERN_CONFIG and UPDATE_SETTINGS write them.
UpdatePushOrder ==
  <<"SET_HORIZONTAL_TRAVEL", "SET_VERTICAL_TRAVEL", "SET_LIP_TRAVEL", "SET_GRID",
    "SET_ENABLED_SIDES", "front", "right", "back", "left", "lip">>

\* The order in which LOAD_CONFIG writes them.
LoadPushOrder ==
  <<"SET_HORIZONTAL_TRAVEL", "SET_VERTICAL_TRAVEL", "SET_LIP_TRAVEL", "SET_GRID",
    "front", "right", "back", "left", "lip">>

SettingsPayload(pattern, maintenance, speeds) ==
  [pattern |-> pattern, maintenance |-> maintenance, speeds |-> speeds]

---------------------------------------------------------------------------
(* handleWebSocketCommand.  A command is [json, type, payload]: json is    *)
(* FALSE for a message JSON.parse rejects, type is "" when absent.  The    *)
(* handler of a command is a sequence of operations; it runs up to the     *)
(* next await, where it is suspended until the awaited write or file       *)
(* operation completes.                                                    *)

Obj(r) == [t |-> "object", v |-> r]

\* command.payload?.field
Get(payload, field) ==
  IF payload.t = "object" /\ field \in DOMAIN payload.v THEN payload.v[field]
  ELSE Undefined

TypeofNumber(j) == j.t \in {"number", "NaN"}

\* The property key a value is used as.
KeyOf(j) == IF j.t = "string" /\ Len(j.v) = 1 THEN j.v[1] ELSE "?"

Text(s) == Str(<<s>>)

\* Math.max(lo, Math.min(hi, n))
Clamp(lo, hi, j) ==
  IF j.v < lo.v THEN lo ELSE IF j.v > hi.v THEN hi ELSE j

\* Math.round(n): to the nearest whole number, halves upwards.
Round(j) == Num(((j.v + 5) \div 10) * 10)

\* Operations that run on: they do not give up the thread.
OpReject(message)  == [op |-> "reject", message |-> message]
OpSend(type)       == [op |-> "send", type |-> type]
OpMutate(store, partial) == [op |-> "mutate", store |-> store, partial |-> partial]
OpSnapshot(what)   == [op |-> "snapshot", what |-> what]
OpBroadcast(type, source) == [op |-> "broadcast", type |-> type, source |-> source]
OpStatus(update)   == [op |-> "status", update |-> update]
OpThrow            == [op |-> "throw"]
OpCapture(name)    == [op |-> "capture", name |-> name]
OpStore(name)      == [op |-> "store", name |-> name]
OpListed           == [op |-> "listed"]
OpLoad(name)       == [op |-> "load", name |-> name]

\* await sendSerialCommand(line): the line is a literal of the command or
\* is built from the handler's copy of the settings.
OpWrite(line) == [op |-> "write", from |-> "literal", line |-> line]
OpWritePattern(which) == [op |-> "write", from |-> "pattern", which |-> which]
OpWriteMaintenance(which, field) ==
  [op |-> "write", from |-> "maintenance", which |-> which, field |-> field]
OpWriteSpeed(side) == [op |-> "write", from |-> "speeds", which |-> side]

\* await of a file-system promise.
OpAwaitFs == [op |-> "fs"]

\* settings.updateSpeeds / updateMaintenanceSettings / updatePatternSettings:
\* the store is changed at once, then saveSettings is awaited.
Update(store, partial) == <<OpMutate(store, partial), OpAwaitFs>>

PushPattern(order) == [i \in 1..Len(order) |-> OpWritePattern(order[i])]

PushMaintenance ==
  <<OpWriteMaintenance("PRIME_TIME", "primeTime"),
    OpWriteMaintenance("CLEAN_TIME", "cleanTime"),
    OpWriteMaintenance("BACK_WASH_TIME", "backWashTime")>>

PushSpeeds == [i \in 1..Len(SideOrder) |-> OpWriteSpeed(SideOrder[i])]

HomePatternProgress ==
  [command |-> Whole(0), total_commands |-> Whole(0), row |-> Whole(0),
   total_rows |-> Whole(9), completed_rows |-> <<>>, single_side |-> Bool(FALSE),
   pattern |-> Text("FRONT"), duration |-> Whole(0), axis |-> Undefined]

\* The progress is reset before the HOME line is handed to the link.
HomeSystemResetFirst ==
  <<OpStatus([patternProgress |-> HomePatternProgress]), OpWrite(Line("HOME", <<>>))>>

\* case "HOME_SYSTEM": await sendSerialCommand("HOME"), then updateStatus
\* with the progress of a homed machine.
HomeSystem ==
  <<OpWrite(Line("HOME", <<>>)), OpStatus([patternProgress |-> HomePatternProgress])>>

PaintSide(type) ==
  CASE type = "PAINT_FRONT" -> "front" [] type = "PAINT_RIGHT" -> "right"
    [] type = "PAINT_BACK"  -> "back"  [] type = "PAINT_LEFT"  -> "left"
    [] type = "PAINT_LIP"   -> "lip"

SideKeyword(side) ==
  CASE side = "front" -> "FRONT" [] side = "right" -> "RIGHT" [] side = "back" -> "BACK"
    [] side = "left"  -> "LEFT"  [] side = "lip"   -> "LIP"

SideDisabledMessage(side) ==
  CASE side = "front" -> "Front side is disabled" [] side = "right" -> "Right side is disabled"
    [] side = "back"  -> "Back side is disabled"  [] side = "left"  -> "Left side is disabled"
    [] side = "lip"   -> "Lip pattern is disabled"

SimpleCommands ==
  {"STOP_PAINTING", "PRIME_GUN", "CLEAN_GUN", "BACK_WASH", "TOGGLE_PRESSURE_POT"}

SimpleKeyword(type) ==
  CASE type = "STOP_PAINTING" -> "STOP" [] type = "PRIME_GUN" -> "PRIME"
    [] type = "CLEAN_GUN" -> "CLEAN"    [] type = "BACK_WASH" -> "BACK_WASH"
    [] type = "TOGGLE_PRESSURE_POT" -> "PRESSURE"

ValidDirections ==
  {"left", "right", "forward", "backward", "forward-left", "forward-right",
   "backward-left", "backward-right"}

\* The switch without its diagonal cases: a diagonal falls to the default
\* axis and sign.
ManualMoveLineNoDiagonal(direction, speed, acceleration) ==
  Line("MANUAL_MOVE",
       <<Text(IF direction \in {"forward", "backward"} THEN "Y" ELSE "X"),
         Text(IF direction \in {"left", "backward"} THEN "-" ELSE "+"),
         ToFixed2(speed), ToFixed2(acceleration)>>)

\* The MANUAL_MOVE line of a direction: axis and sign, or the two signed axes.
ManualMoveLine(direction, speed, acceleration) ==
  CASE direction = "left"     -> Line("MANUAL_MOVE", <<Text("X"), Text("-"), ToFixed2(speed), ToFixed2(acceleration)>>)
    [] direction = "right"    -> Line("MANUAL_MOVE", <<Text("X"), Text("+"), ToFixed2(speed), ToFixed2(acceleration)>>)
    [] direction = "forward"  -> Line("MANUAL_MOVE", <<Text("Y"), Text("+"), ToFixed2(speed), ToFixed2(acceleration)>>)
    [] direction = "backward" -> Line("MANUAL_MOVE", <<Text("Y"), Text("-"), ToFixed2(speed), ToFixed2(acceleration)>>)
    [] direction = "forward-right"  -> Line("MANUAL_MOVE_DIAGONAL", <<Text("X+"), Text("Y+"), ToFixed2(speed), ToFixed2(acceleration)>>)
    [] direction = "forward-left"   -> Line("MANUAL_MOVE_DIAGONAL", <<Text("X-"), Text("Y+"), ToFixed2(speed), ToFixed2(acceleration)>>)
    [] direction = "backward-right" -> Line("MANUAL_MOVE_DIAGONAL", <<Text("X+"), Text("Y-"), ToFixed2(speed), ToFixed2(acceleration)>>)
    [] direction = "backward-left"  -> Line("MANUAL_MOVE_DIAGONAL", <<Text("X-"), Text("Y-"), ToFixed2(speed), ToFixed2(acceleration)>>)

\* value || 1.0
OrOne(j) == IF Truthy(j) THEN j ELSE Whole(1)

\* The upper end of the range is let in.
InRangeInclusive(j, lo, hi) == IsNum(j) /\ j.v >= lo.v /\ j.v <= hi.v

\* n >= lo && n < hi of two numbers; every comparison with NaN is false.
InRange(j, lo, hi) == IsNum(j) /\ j.v >= lo.v /\ j.v < hi.v

\* The guard lets START through whatever the sides.
SomeEnabledAlways(enabledSides) == TRUE

\* Object.values(enabledSides).some(enabled => enabled)
SomeEnabled(enabledSides) == \E s \in DOMAIN enabledSides : enabledSides[s]

\* The operations of the handler of one command, in program order.  What a
\* guard reads from the settings store it reads when the handler starts.
Program(cmd, store) ==
  LET p    == cmd.payload
      type == cmd.type
  IN
  IF ~cmd.json \/ type = "" THEN <<OpReject("Invalid command format")>>
  ELSE CASE
    type = "START_PAINTING" ->
      IF SomeEnabled(store.pattern.enabledSides)
      THEN <<OpWrite(Line("START", <<>>))>>
      ELSE <<OpReject("No sides are enabled for painting")>>
    [] type \in SimpleCommands -> <<OpWrite(Line(SimpleKeyword(type), <<>>))>>
    [] type = "HOME_SYSTEM" -> HomeSystem
    [] type \in {"PAINT_FRONT", "PAINT_RIGHT", "PAINT_BACK", "PAINT_LEFT", "PAINT_LIP"} ->
      IF store.pattern.enabledSides[PaintSide(type)]
      THEN <<OpWrite(Line(SideKeyword(PaintSide(type)), <<>>))>>
      ELSE <<OpReject(SideDisabledMessage(PaintSide(type)))>>
    [] type = "ROTATE_SPINNER" ->
      IF ~Truthy(Get(p, "direction")) \/ ~Truthy(Get(p, "degrees"))
      THEN <<OpReject("Missing direction or degrees for rotation")>>
      ELSE <<OpWrite(Line("ROTATE",
                          <<Text(IF Get(p, "direction") = Text("right") THEN "" ELSE "-"),
                            Get(p, "degrees")>>))>>
    [] type = "PAINT_PIECE" ->
      IF Truthy(p) /\ TypeofNumber(Get(p, "row")) /\ TypeofNumber(Get(p, "col"))
      THEN IF InRange(Get(p, "row"), Whole(0), Whole(6))
              /\ InRange(Get(p, "col"), Whole(0), Whole(9))
           THEN <<OpWrite(Line("PAINT_PIECE", <<Get(p, "row"), Get(p, "col")>>))>>
           ELSE <<OpReject("Invalid grid position. Row must be 0-5 and column must be 0-8.")>>
      ELSE <<OpReject("Missing or invalid row/column in PAINT_PIECE command")>>
    [] type = "SET_SPEED" ->
      IF Truthy(p) /\ Truthy(Get(p, "side")) /\ Truthy(Get(p, "value"))
      THEN Update("speeds", KeyOf(Get(p, "side")) :> Get(p, "value"))
           \o <<IF Get(p, "side").t = "string"
             THEN OpWrite(Line("SPEED", <<ToUpperCase(Get(p, "side")), Get(p, "value")>>))
             ELSE OpThrow>>
      ELSE <<>>
    [] type \in {"MOVE", "GOTO"} ->
      LET amount == IF type = "MOVE" THEN Get(p, "distance") ELSE Get(p, "position")
      IN IF Truthy(p) /\ Truthy(Get(p, "axis")) /\ Truthy(amount)
         THEN IF Get(p, "axis").t = "string"
              THEN <<OpWrite(Line(IF type = "MOVE" THEN "MOVE_" ELSE "GOTO_",
                                  <<ToUpperCase(Get(p, "axis")), amount>>))>>
              ELSE <<OpThrow>>
         ELSE <<>>
    [] type = "HEARTBEAT" -> <<OpSend("STATE_UPDATE")>>
    [] type \in {"SET_PRIME_TIME", "SET_CLEAN_TIME"} ->
      IF Truthy(p) /\ TypeofNumber(Get(p, "seconds"))
      THEN LET hi      == IF type = "SET_PRIME_TIME" THEN Whole(30) ELSE Whole(60)
               seconds == IF IsNum(Get(p, "seconds"))
                          THEN Clamp(Whole(1), hi, Get(p, "seconds")) ELSE NaN
           IN IF type = "SET_PRIME_TIME"
              THEN Update("maintenance", [primeTime |-> seconds])
                   \o <<OpWrite(Line("PRIME_TIME", <<seconds>>))>>
              ELSE Update("maintenance", [cleanTime |-> seconds])
                   \o <<OpWrite(Line("CLEAN_TIME", <<seconds>>))>>
      ELSE <<>>
    [] type = "UPDATE_PATTERN_CONFIG" ->
      IF Truthy(p)
      THEN Update("pattern", p.v)
           \o <<OpSnapshot("pattern"), OpBroadcast("SETTINGS_UPDATE", "pattern")>>
           \o PushPattern(UpdatePushOrder)
      ELSE <<>>
    [] type = "GET_PATTERN_CONFIG" -> <<OpSend("PATTERN_CONFIG")>>
    [] type = "GET_SETTINGS" -> <<OpSend("SETTINGS_UPDATE")>>
    [] type = "UPDATE_SETTINGS" ->
      IF Truthy(p)
      THEN (IF Truthy(Get(p, "pattern"))
            THEN Update("pattern", Get(p, "pattern").v) ELSE <<>>)
           \o (IF Truthy(Get(p, "maintenance"))
               THEN Update("maintenance", Get(p, "maintenance").v)
                    \o <<OpSnapshot("maintenance")>> \o PushMaintenance
               ELSE <<>>)
           \o (IF Truthy(Get(p, "speeds"))
               THEN Update("speeds", Get(p, "speeds").v) ELSE <<>>)
           \o <<OpBroadcast("SETTINGS_UPDATE", "store")>>
           \o (IF Truthy(Get(p, "speeds"))
               THEN LET entries == SelectSeq(SideOrder, LAMBDA s : s \in DOMAIN Get(p, "speeds").v)
                    IN [i \in 1..Len(entries) |->
                          OpWrite(Line("SPEED", <<ToUpperCase(Text(entries[i])),
                                                  Get(p, "speeds").v[entries[i]]>>))]
               ELSE <<>>)
           \o (IF Truthy(Get(p, "pattern"))
               THEN <<OpSnapshot("pattern")>> \o PushPattern(UpdatePushOrder)
               ELSE <<>>)
      ELSE <<>>
    [] type = "MANUAL_MOVE" ->
      IF ~Truthy(Get(p, "direction")) \/ ~Truthy(Get(p, "state"))
      THEN <<OpReject("Missing direction or state for manual move")>>
      ELSE IF ~(Get(p, "direction").t = "string" /\ KeyOf(Get(p, "direction")) \in ValidDirections)
      THEN <<OpReject("Invalid direction for manual move")>>
      ELSE IF Get(p, "state") = Text("START")
      THEN LET speed        == OrOne(Get(p, "speed"))
               acceleration == OrOne(Get(p, "acceleration"))
           IN IF IsNum(speed) /\ IsNum(acceleration)
              THEN <<OpWrite(ManualMoveLine(KeyOf(Get(p, "direction")), speed, acceleration))>>
              ELSE <<OpThrow>>
      ELSE IF Get(p, "state") = Text("STOP")
      THEN <<OpWrite(Line("MANUAL_STOP", <<>>))>>
      ELSE <<OpReject("Invalid state for manual move")>>
    [] type = "TOGGLE_SPRAY" ->
      IF ~Truthy(Get(p, "state")) THEN <<OpReject("Missing state for spray toggle")>>
      ELSE IF Get(p, "state") = Text("START") THEN <<OpWrite(Line("SPRAY_START", <<>>))>>
      ELSE IF Get(p, "state") = Text("STOP") THEN <<OpWrite(Line("SPRAY_STOP", <<>>))>>
      ELSE <<OpReject("Invalid state for spray toggle")>>
    [] type = "MOVE_TO_POSITION" ->
      LET moveSpeed        == OrOne(Get(p, "speed"))
          moveAcceleration == OrOne(Get(p, "acceleration"))
      IN IF ~Truthy(Get(p, "x")) \/ Get(p, "y") \in {Undefined, Null}
         THEN <<OpReject("Missing x or y coordinates for position move")>>
         ELSE IF \/ (IsNum(moveSpeed) /\ (moveSpeed.v <= 0 \/ moveSpeed.v > 10))
                 \/ (IsNum(moveAcceleration)
                       /\ (moveAcceleration.v <= 0 \/ moveAcceleration.v > 10))
         THEN <<OpReject("Speed and acceleration must be between 0 and 1")>>
         ELSE IF IsNum(Get(p, "x")) /\ IsNum(Get(p, "y"))
         THEN <<OpWrite(Line("GOTO", <<ToFixed2(Get(p, "x")), ToFixed2(Get(p, "y"))>>))>>
         ELSE <<OpThrow>>
    [] type = "SET_SERVO_ANGLE" ->
      LET angle == ToNumber(Get(p, "angle"))
      IN IF Get(p, "angle") = Undefined THEN <<OpReject("Missing angle for servo")>>
         ELSE IF ~IsNum(angle) \/ angle.v < 0 \/ angle.v > 1800
         THEN <<OpReject("Servo angle must be between 0 and 180 degrees")>>
         ELSE <<OpWrite(Line("SERVO", <<Round(angle)>>))>>
    [] type = "SAVE_CONFIG" ->
      IF ~Truthy(Get(p, "name")) THEN <<OpReject("Missing configuration name")>>
      ELSE IF Get(p, "name").t # "string" THEN <<OpThrow>>
      ELSE <<OpCapture(KeyOf(Get(p, "name"))), OpAwaitFs, OpStore(KeyOf(Get(p, "name"))),
             OpAwaitFs, OpListed, OpBroadcast("CONFIGS_UPDATE", "listed")>>
    [] type = "LOAD_CONFIG" ->
      IF ~Truthy(Get(p, "name")) THEN <<OpReject("Missing configuration name")>>
      ELSE IF Get(p, "name").t # "string" THEN <<OpThrow>>
      ELSE <<OpAwaitFs, OpLoad(KeyOf(Get(p, "name"))), OpAwaitFs, OpSnapshot("all")>>
           \o PushSpeeds \o PushMaintenance \o PushPattern(LoadPushOrder)
           \o <<OpBroadcast("SETTINGS_UPDATE", "snapshot")>>
    [] type = "GET_CONFIGS" -> <<OpAwaitFs, OpListed, OpSend("CONFIGS_UPDATE")>>
    [] OTHER -> <<OpReject("Unknown command")>>

\* The commands whose awaits are inside a try of their own: what is thrown
\* there is reported to the requester and goes no further.
InnerTry == {"MOVE_TO_POSITION", "SET_SERVO_ANGLE", "SAVE_CONFIG", "LOAD_CONFIG", "GET_CONFIGS"}


---------------------------------------------------------------------------
(* Running a handler.  A handler is [id, ws, cmd, prog, local, wrote,      *)
(* mutated, outcome, error, trace]: the operations it has left, its local  *)
(* copies of the settings, how many lines it has written, whether it has   *)
(* changed the settings store, how it went so far, what it threw and what  *)
(* it has done.  The callback m carries the system state, the store, the   *)
(* saved profiles, the link and the messages sent.                         *)

NoLocal == [pattern |-> Undefined, maintenance |-> Undefined, speeds |-> Undefined,
            listed |-> {}, capture |-> Undefined]

\* One entry of a handler's history: a store it updated, a message it
\* broadcast or a line it handed to the link.
Did(did, what, args) == [did |-> did, what |-> what, args |-> args]

\* trace is the handler's history, in program order.
NewHandler(id, ws, cmd, store) ==
  [id |-> id, ws |-> ws, cmd |-> cmd, prog |-> Program(cmd, store), local |-> NoLocal,
   wrote |-> 0, mutated |-> FALSE, outcome |-> "ignored", error |-> "", trace |-> <<>>]

\* ws.send guarded by  ws.readyState === WebSocket.OPEN
SendTo(m, ws, type, payload) ==
  IF sock[ws].readyState = "OPEN"
  THEN [m EXCEPT !.sent = Append(@, [to |-> {ws}, type |-> type, payload |-> payload])]
  ELSE m

\* The error is told to every subscriber.
SendErrorToAll(m, ws, message) == BroadcastToAll(m, "ERROR", [message |-> message])

SendErrorToClient(m, ws, message) == SendTo(m, ws, "ERROR", [message |-> message])

\* What a handler sends to its own socket on request.
Reply(m, t, type) ==
  CASE type = "STATE_UPDATE"    -> SendTo(m, t.ws, type, m.status)
    [] type = "PATTERN_CONFIG"  -> SendTo(m, t.ws, type, m.settings.pattern)
    [] type = "SETTINGS_UPDATE" ->
         SendTo(m, t.ws, type,
                SettingsPayload(m.settings.pattern, m.settings.maintenance, m.settings.speeds))
    [] type = "CONFIGS_UPDATE"  -> SendTo(m, t.ws, type, t.local.listed)

\* What a handler broadcasts: the pattern from its copy and the rest from
\* the store, everything from the store, everything from its copies, or
\* the profile list.
Broadcast(m, t, o) ==
  CASE o.source = "pattern" ->
         BroadcastToAll(m, o.type,
           SettingsPayload(t.local.pattern, m.settings.maintenance, m.settings.speeds))
    [] o.source = "store" ->
         BroadcastToAll(m, o.type,
           SettingsPayload(m.settings.pattern, m.settings.maintenance, m.settings.speeds))
    [] o.source = "snapshot" ->
         BroadcastToAll(m, o.type,
           SettingsPayload(t.local.pattern, t.local.maintenance, t.local.speeds))
    [] o.source = "listed" -> BroadcastToAll(m, o.type, t.local.listed)

\* The line a write operation hands to sendSerialCommand; Undefined where
\* building it throws.
BuildLine(o, local) ==
  CASE o.from = "literal"     -> o.line
    [] o.from = "pattern"     -> PatternLine(o.which, local.pattern)
    [] o.from = "maintenance" -> Line(o.which, <<local.maintenance[o.field]>>)
    [] o.from = "speeds"      ->
         Line("SPEED", <<ToUpperCase(Text(o.which)), local.speeds[o.which]>>)

SeriousMessages == {"Serial port not connected", "Failed to send command"}

\* An exception in the handler: the catch of the command's own try, or the
\* outer catch, which also puts the system in ERROR for a link failure.
Throw(m, t, message) ==
  LET m1 == SendErrorToClient(m, t.ws, message)
      m2 == IF t.cmd.type \notin InnerTry /\ message \in SeriousMessages
            THEN UpdateStatus(m1, [status |-> "ERROR"]) ELSE m1
  IN [m |-> m2, t |-> [t EXCEPT !.prog = <<>>, !.outcome = "threw", !.error = message],
      done |-> TRUE]

Snapshot(local, what, store) ==
  CASE what = "pattern"     -> [local EXCEPT !.pattern = store.pattern]
    [] what = "maintenance" -> [local EXCEPT !.maintenance = store.maintenance]
    [] what = "all"         -> [local EXCEPT !.pattern = store.pattern,
                                             !.maintenance = store.maintenance,
                                             !.speeds = store.speeds]

\* Runs the handler until it returns, throws or reaches an await.
RECURSIVE Run(_, _)
Run(m, t) ==
  IF t.prog = <<>> THEN [m |-> m, t |-> t, done |-> TRUE]
  ELSE
  LET o    == Head(t.prog)
      rest == [t EXCEPT !.prog = Tail(@),
                        !.outcome = IF o.op = "reject" THEN "rejected" ELSE "accepted"]
  IN CASE o.op = "reject"    -> Run(SendErrorToClient(m, t.ws, o.message), rest)
       [] o.op = "send"      -> Run(Reply(m, rest, o.type), rest)
       [] o.op = "mutate"    ->
            Run([m EXCEPT !.settings[o.store] = Merge(@, o.partial)],
                [rest EXCEPT !.mutated = TRUE, !.trace = Append(@, Did("update", o.store, <<>>))])
       [] o.op = "snapshot"  ->
            Run(m, [rest EXCEPT !.local = Snapshot(@, o.what, m.settings)])
       [] o.op = "broadcast" ->
            Run(Broadcast(m, rest, o),
                [rest EXCEPT !.trace = Append(@, Did("broadcast", o.type, <<>>))])
       [] o.op = "status"    -> Run(UpdateStatus(m, o.update), rest)
       [] o.op = "throw"     -> Throw(m, rest, "TypeError")
       [] o.op = "capture"   -> Run(m, [rest EXCEPT !.local.capture = m.settings])
       [] o.op = "store"     ->
            Run([m EXCEPT !.configs = (o.name :> rest.local.capture) @@ @], rest)
       [] o.op = "listed"    -> Run(m, [rest EXCEPT !.local.listed = DOMAIN m.configs])
       [] o.op = "load"      ->
            IF o.name \in DOMAIN m.configs
            THEN Run([m EXCEPT !.settings = Merge(DefaultSettings, m.configs[o.name])],
                     [rest EXCEPT !.mutated = TRUE, !.trace = Append(@, Did("update", "all", <<>>))])
            ELSE Throw(m, rest, "ENOENT")
       [] o.op = "fs"        -> [m |-> m, t |-> [t EXCEPT !.outcome = "accepted"], done |-> FALSE]
       [] o.op = "write"     ->
            LET line == BuildLine(o, rest.local)
            IN IF line = Undefined THEN Throw(m, rest, "TypeError")
               ELSE IF ~portOpen
               THEN Throw(BroadcastToAll(m, "WARNING",
                            Warning("Connection Error", "Serial port not connected", "high")),
                          rest, "Serial port not connected")
               ELSE [m |-> [m EXCEPT !.link = [by |-> t.id, line |-> line, prev |-> @.by]],
                     t |-> [t EXCEPT !.wrote = @ + 1, !.outcome = "accepted",
                                     !.trace = Append(@, Did("write", line.keyword, line.args))],
                     done |-> FALSE]


---------------------------------------------------------------------------
(* The callbacks.                                                          *)

Sockets == {"ws1", "ws2"}

HandlerIds == {"h1", "h2"}

MaxUptime == 1

\* The link supervisor at rest: no attempt counted, no timer, no open in
\* flight.  `enabled` tells which handleDisconnect the build has: the one
\* that retries (src/unnamed/part_000) or the one that gives up at once
\* (src/src/index.ts).
AtRest(enabled) ==
  [enabled |-> enabled, attempts |-> 0, timer |-> 0, opening |-> FALSE,
   pending |-> 0, opens |-> 0, handlers |-> 1, reopened |-> FALSE]

\* The state once initialize() has resolved: the port is open, the server
\* listens, the start-up push has written its last line.
Constructed ==
  /\ status = InitialStatus
  /\ clients = {}
  /\ sock = [c \in Sockets |-> [readyState |-> "NONE", stage |-> "none"]]
  /\ settings = DefaultSettings
  /\ configs = <<>>
  /\ portOpen = TRUE
  /\ link = [by |-> "initialize", prev |-> "initialize",
              line |-> PatternLine("SET_LIP_TRAVEL", DefaultSettings.pattern)]
  /\ tasks = {}
  /\ ev = [kind |-> "init"]
  /\ sent = <<>>

\* The build of src/src/index.ts: a lost link is not reopened.
Init == reconnect = AtRest(FALSE) /\ Constructed

\* The build of src/unnamed/part_000: a lost link is reopened with backoff.
InitSupervised == reconnect = AtRest(TRUE) /\ Constructed

\* The callback that starts from the current state.
Here == [status |-> status, sent |-> <<>>, settings |-> settings, configs |-> configs,
         link |-> link]

\* The state a callback of a handler leaves behind.
Leave(r, event) ==
  /\ status' = r.m.status
  /\ sent' = r.m.sent
  /\ settings' = r.m.settings
  /\ configs' = r.m.configs
  /\ link' = r.m.link
  /\ tasks' = {t \in tasks : t.id # r.t.id} \cup (IF r.done THEN {} ELSE {r.t})
  /\ ev' = event @@ [task |-> r.t.id, ws |-> r.t.ws, cmd |-> r.t.cmd, done |-> r.done,
                     outcome |-> r.t.outcome, error |-> r.t.error, wrote |-> r.t.wrote,
                     mutated |-> r.t.mutated, trace |-> r.t.trace]
  /\ UNCHANGED <<clients, sock, portOpen, reconnect>>

FreeIds == HandlerIds \ {t.id : t \in tasks}

\* A message arrives while listConfigs is awaited: the socket is in
\* this.clients, its message listener is not registered yet, and the event
\* is emitted to nobody.
MessageUnheard(c, cmd) ==
  /\ sock[c].readyState = "OPEN" /\ sock[c].stage = "listing"
  /\ sent' = <<>>
  /\ ev' = [kind |-> "unheard", ws |-> c, cmd |-> cmd]
  /\ UNCHANGED <<status, clients, sock, settings, configs, portOpen, link, tasks, reconnect>>

\* ws.on("message"): a subscriber's message starts a handler.
Message(c, cmd) ==
  /\ sock[c].readyState = "OPEN" /\ sock[c].stage = "ready"
  /\ FreeIds # {}
  /\ LET id == IF "h1" \in FreeIds THEN "h1" ELSE "h2"
     IN Leave(Run(Here, NewHandler(id, c, cmd, settings)), [kind |-> "message"])

Awaiting(t, op) == t.prog # <<>> /\ Head(t.prog).op = op

\* The callback of port.write reports success.
WriteDone(t) ==
  /\ t \in tasks /\ Awaiting(t, "write")
  /\ Leave(Run(Here, [t EXCEPT !.prog = Tail(@)]), [kind |-> "writeDone"])

\* The rejection is swallowed: the handler goes on to its next line.
WriteFailIgnored(t) ==
  /\ t \in tasks /\ Awaiting(t, "write")
  /\ Leave(Run(Here, [t EXCEPT !.prog = Tail(@)]), [kind |-> "writeFail"])

\* The callback of port.write reports an error.
WriteFail(t) ==
  /\ t \in tasks /\ Awaiting(t, "write")
  /\ Leave(Throw(BroadcastToAll(Here, "WARNING",
                   Warning("Command Error", "Failed to send command", "high")),
                 [t EXCEPT !.prog = Tail(@)], "Failed to send command"),
           [kind |-> "writeFail"])

\* A file-system promise resolves.
FsDone(t) ==
  /\ t \in tasks /\ Awaiting(t, "fs")
  /\ Leave(Run(Here, [t EXCEPT !.prog = Tail(@)]), [kind |-> "fsDone"])

\* A file-system promise rejects.
FsFail(t) ==
  /\ t \in tasks /\ Awaiting(t, "fs")
  /\ Leave(Throw(Here, [t EXCEPT !.prog = Tail(@)], "EIO"), [kind |-> "fsFail"])

\* Every data handler of the open port is called with the line, one after
\* the other within the emit.
RECURSIVE Deliver(_, _, _)
Deliver(st, line, n) ==
  IF n = 0 THEN Callback(st)
  ELSE LET before == Deliver(st, line, n - 1)
           m      == ProcessSerialResponse(before.status, line)
       IN [m EXCEPT !.sent = before.sent \o @]

\* parser.on("data"): one line of the controller.
SerialData(line) ==
  /\ portOpen
  /\ LET m == Deliver(status, line, reconnect.handlers)
     IN /\ status' = m.status
        /\ sent' = m.sent
  /\ ev' = [kind |-> "serial", line |-> line]
  /\ UNCHANGED <<clients, sock, settings, configs, portOpen, link, tasks, reconnect>>

\* wss.on("connection"): the socket joins the subscribers, is sent the
\* state and the settings, and the profile list is awaited.
Connect(c) ==
  /\ sock[c].readyState = "NONE"
  /\ clients' = clients \cup {c}
  /\ sock' = [sock EXCEPT ![c] = [readyState |-> "OPEN", stage |-> "listing"]]
  /\ sent' = <<[to |-> {c}, type |-> "STATE_UPDATE", payload |-> status],
               [to |-> {c}, type |-> "SETTINGS_UPDATE",
                payload |-> SettingsPayload(settings.pattern, settings.maintenance,
                                            settings.speeds)]>>
  /\ ev' = [kind |-> "connect", ws |-> c]
  /\ UNCHANGED <<status, settings, configs, portOpen, link, tasks, reconnect>>

\* listConfigs has resolved or rejected: the list or an error is sent, and
\* only now the message, close and error handlers are registered.
Listed(c, ok) ==
  /\ sock[c].stage = "listing"
  /\ sock' = [sock EXCEPT ![c].stage = "ready"]
  /\ sent' = IF sock[c].readyState # "OPEN" THEN <<>>
             ELSE IF ok THEN <<[to |-> {c}, type |-> "CONFIGS_UPDATE", payload |-> DOMAIN configs]>>
             ELSE <<[to |-> {c}, type |-> "ERROR",
                     payload |-> [message |-> "Failed to load configurations"]]>>
  /\ ev' = [kind |-> "listed", ws |-> c]
  /\ UNCHANGED <<status, clients, settings, configs, portOpen, link, tasks, reconnect>>

\* The socket closes; ws.on("close") removes it if it is registered.
Close(c) ==
  /\ sock[c].readyState \in {"OPEN", "CLOSING"}
  /\ sock' = [sock EXCEPT ![c].readyState = "CLOSED"]
  /\ clients' = IF sock[c].stage = "ready" THEN clients \ {c} ELSE clients
  /\ sent' = <<>>
  /\ ev' = [kind |-> "close", ws |-> c]
  /\ UNCHANGED <<status, settings, configs, portOpen, link, tasks, reconnect>>

\* The socket fails: it is closing when its error event is emitted, and
\* ws.on("error") removes it if it is registered.
SocketError(c) ==
  /\ sock[c].readyState = "OPEN"
  /\ sock' = [sock EXCEPT ![c].readyState = "CLOSING"]
  /\ clients' = IF sock[c].stage = "ready" THEN clients \ {c} ELSE clients
  /\ sent' = <<>>
  /\ ev' = [kind |-> "socketError", ws |-> c]
  /\ UNCHANGED <<status, settings, configs, portOpen, link, tasks, reconnect>>

\* setInterval of startUptimeTimer: the uptime text is renewed.
UptimeTick ==
  /\ status.systemInfo.uptime < MaxUptime
  /\ LET m == UpdateStatus(Callback(status),
                [systemInfo |-> [status.systemInfo EXCEPT !.uptime = @ + 1]])
     IN status' = m.status /\ sent' = m.sent
  /\ ev' = [kind |-> "uptime"]
  /\ UNCHANGED <<clients, sock, settings, configs, portOpen, link, tasks, reconnect>>

\* port.on("error")
PortError ==
  /\ portOpen
  /\ LET m == BroadcastToAll(UpdateStatus(Callback(status), [status |-> "ERROR"]),
                "WARNING", Warning("Serial Port Error", "Serial communication error", "high"))
     IN status' = m.status /\ sent' = m.sent
  /\ ev' = [kind |-> "portError"]
  /\ UNCHANGED <<clients, sock, settings, configs, portOpen, link, tasks, reconnect>>

Command(type, payload) == [json |-> TRUE, type |-> type, payload |-> payload]

---------------------------------------------------------------------------
(* The link supervisor.                                                    *)

MAX_RECONNECT_ATTEMPTS == 5

RECONNECT_BASE_DELAY == 1000

RECONNECT_MAX_DELAY == 30000

Min(a, b) == IF a <= b THEN a ELSE b

\* The delay grows by one base delay per attempt.
DelayLinear(attempts) ==
  Min(RECONNECT_BASE_DELAY * (attempts + 1), RECONNECT_MAX_DELAY)

\* Math.min(1000 * Math.pow(2, this.reconnectAttempts), 30000), in ms
Delay(attempts) == Min(RECONNECT_BASE_DELAY * 2 ^ attempts, RECONNECT_MAX_DELAY)

\* Nothing is said when the attempts are used up.
GiveUpSilently(m) == m

\* The notification that the attempts are used up.
GiveUp(m) ==
  BroadcastToAll(m, "WARNING",
    Warning("Connection Failed", "Maximum reconnection attempts reached", "high"))

\* if (this.reconnectTimer) clearTimeout(this.reconnectTimer)
ClearTimer(r) == [r EXCEPT !.timer = 0, !.pending = 0]

\* The attempt is never counted: a new timer is set after every failure.
HandleDisconnectForever(m, r) ==
  [m |-> m, r |-> [ClearTimer(r) EXCEPT !.timer = Delay(0), !.pending = @ + 1]]

\* handleDisconnect of the build that retries: the pending timer is
\* cleared; below the maximum a new one is set and the attempt counted.
HandleDisconnectRetry(m, r) ==
  IF r.attempts < MAX_RECONNECT_ATTEMPTS
  THEN [m |-> m, r |-> [ClearTimer(r) EXCEPT !.timer = Delay(r.attempts),
                                             !.attempts = @ + 1, !.pending = @ + 1]]
  ELSE [m |-> GiveUp(m), r |-> ClearTimer(r)]

\* handleDisconnect of the build that does not retry.
HandleDisconnectOff(m, r) ==
  [m |-> UpdateStatus(BroadcastToAll(m, "WARNING",
                        Warning("USB Disconnected", "USB connection lost", "high")),
                      [status |-> "ERROR"]),
   r |-> r]

\* The link is reopened whatever the build.
HandleDisconnectAlways(m, r) == HandleDisconnectRetry(m, r)

HandleDisconnect(m, r) ==
  IF r.enabled THEN HandleDisconnectRetry(m, r) ELSE HandleDisconnectOff(m, r)

\* The attempts made so far stay counted after the link is open again.
OpenedKeepingCount(r) == [r EXCEPT !.opening = FALSE]

\* The open callback without error: this.reconnectAttempts = 0
Opened(r) == [r EXCEPT !.opening = FALSE, !.attempts = 0]

\* port.on("close"), with handleDisconnect
PortClose ==
  /\ portOpen
  /\ portOpen' = FALSE
  /\ LET m1 == BroadcastToAll(UpdateStatus(Callback(status), [status |-> "ERROR"]),
                 "WARNING", Warning("USB Disconnected", "USB connection closed", "high"))
         h  == HandleDisconnect(m1, reconnect)
     IN status' = h.m.status /\ sent' = h.m.sent /\ reconnect' = h.r
  /\ ev' = [kind |-> "portClose"]
  /\ UNCHANGED <<clients, sock, settings, configs, link, tasks>>

\* The timer fires again and again: it stays pending after it has fired.
RetryTimerRepeating ==
  /\ reconnect.pending > 0
  /\ reconnect' = [reconnect EXCEPT !.opening = TRUE, !.opens = @ + 1]
  /\ sent' = <<>>
  /\ ev' = [kind |-> "retryTimer", delay |-> reconnect.timer]
  /\ UNCHANGED <<status, clients, sock, settings, configs, portOpen, link, tasks>>

\* The reconnect timer fires: initializeSerial() constructs a new port,
\* whose open callback is awaited.
RetryTimer ==
  /\ reconnect.pending > 0
  /\ reconnect' = [reconnect EXCEPT !.timer = 0, !.pending = @ - 1,
                                    !.opening = TRUE, !.opens = @ + 1]
  /\ sent' = <<>>
  /\ ev' = [kind |-> "retryTimer", delay |-> reconnect.timer]
  /\ UNCHANGED <<status, clients, sock, settings, configs, portOpen, link, tasks>>

\* The data handler is added to the parser already there.
SameParser(r) == [r EXCEPT !.handlers = @ + 1]

\* this.parser = this.port.pipe(new ReadlineParser(...)); setupSerialHandlers():
\* the new port has a parser of its own with one data handler.  The port
\* before it is closed and delivers nothing more.
NewParser(r) == [r EXCEPT !.handlers = 1]

\* The re-open reports the system idle again.
OpenDoneReportingIdle ==
  /\ reconnect.opening
  /\ portOpen' = TRUE
  /\ reconnect' = [NewParser(Opened(reconnect)) EXCEPT !.opens = @ - 1, !.reopened = TRUE]
  /\ LET m == UpdateStatus(Callback(status), [status |-> "IDLE"])
     IN status' = m.status /\ sent' = m.sent
  /\ ev' = [kind |-> "openDone", attempts |-> reconnect.attempts]
  /\ UNCHANGED <<clients, sock, settings, configs, link, tasks>>

\* The open callback reports success: the handlers are set up on the new port.
OpenDone ==
  /\ reconnect.opening
  /\ portOpen' = TRUE
  /\ reconnect' = [NewParser(Opened(reconnect)) EXCEPT !.opens = @ - 1, !.reopened = TRUE]
  /\ sent' = <<>>
  /\ ev' = [kind |-> "openDone", attempts |-> reconnect.attempts]
  /\ UNCHANGED <<status, clients, sock, settings, configs, link, tasks>>

\* The open callback reports an error: the rejection is caught by the timer
\* callback, which calls handleDisconnect again.
OpenFail ==
  /\ reconnect.opening
  /\ LET m1 == BroadcastToAll(Callback(status), "WARNING",
                 Warning("Connection Error", "Failed to open port", "high"))
         h  == HandleDisconnect(m1, [reconnect EXCEPT !.opening = FALSE, !.opens = @ - 1])
     IN status' = h.m.status /\ sent' = h.m.sent /\ reconnect' = h.r
  /\ ev' = [kind |-> "openFail"]
  /\ UNCHANGED <<clients, sock, settings, configs, portOpen, link, tasks>>

\* Link loss and recovery under the build that retries, with one
\* subscriber that keeps sending STOP_PAINTING.
NextSupervised ==
  \/ Connect("ws1")
  \/ \E ok \in BOOLEAN : Listed("ws1", ok)
  \/ tasks = {} /\ Message("ws1", Command("STOP_PAINTING", Undefined))
  \/ \E t \in tasks : WriteDone(t)
  \/ \E t \in tasks : WriteFail(t)
  \/ SerialData(<<"State changed:", "IDLE">>)
  \/ PortError
  \/ PortClose
  \/ RetryTimer
  \/ OpenDone
  \/ OpenFail

SpecSupervised == InitSupervised /\ [][NextSupervised]_vars

\* A timer that is set fires, and an open that was started calls back, with
\* success or with an error.
SpecSupervisedFair ==
  SpecSupervised /\ WF_vars(RetryTimer) /\ WF_vars(OpenDone \/ OpenFail)

---------------------------------------------------------------------------
(* Pattern progress: the keyed events, the HOMED report and HOME_SYSTEM.   *)

ProgressLines ==
  {<<"SPRAY_COMPLETE", "|", "row", "=", n>> : n \in {"1", "x"}}
  \cup {<<e, "|", "row", "=", "2">> : e \in {"SPRAY_START", "MOVE_X", "PATTERN_START"}}
  \cup {<<e, "|", "row", "=", "1">> : e \in {"SPRAY_START", "PATTERN_COMPLETE", "ERROR",
                                             "PROGRESS"}}
  \cup {<<e, "|", "single_side", "=", "true">> : e \in {"PATTERN_START", "PATTERN_COMPLETE"}}
  \cup {<<"State changed:", "HOMED">>}

NextProgress ==
  \/ \E line \in ProgressLines : SerialData(line)
  \/ Connect("ws1")
  \/ \E ok \in BOOLEAN : Listed("ws1", ok)
  \/ Message("ws1", Command("HOME_SYSTEM", Undefined))
  \/ \E t \in tasks : WriteDone(t)

SpecProgress == Init /\ [][NextProgress]_vars


---------------------------------------------------------------------------
(* HOME_SYSTEM with a link that may fail or be lost.                       *)

HomeLines ==
  {<<"PATTERN_START", "|", "row", "=", "2">>, <<"SPRAY_COMPLETE", "|", "row", "=", "1">>,
   <<"State changed:", "HOMED">>}

NextHome ==
  \/ \E line \in HomeLines : SerialData(line)
  \/ Connect("ws1")
  \/ \E ok \in BOOLEAN : Listed("ws1", ok)
  \/ tasks = {} /\ Message("ws1", Command("HOME_SYSTEM", Undefined))
  \/ \E t \in tasks : WriteDone(t)
  \/ \E t \in tasks : WriteFail(t)
  \/ PortClose

SpecHome == Init /\ [][NextHome]_vars

---------------------------------------------------------------------------
(* The other telegrams: limit switches, reports, unrecognised lines.       *)

TelegramLines ==
  {<<"LIMIT:", "X_MIN">>, <<"LIMIT:", "X_MAX">>,
   <<"LIMIT_CLEAR:", "X">>, <<"LIMIT_CLEAR:", "Y">>, <<"LIMIT_CLEAR:", "Z">>,
   <<"Position - X:", "1", "inches, Y:", "2", "inches">>,
   <<"Pressure pot", "activated">>,
   <<"Pressure pot", "activated", "LIMIT:", "Y_MAX">>,
   <<"State changed:", "IDLE">>,
   <<"SPRAY_START", "|", "row", "=", "1">>,
   <<"Temperature:", "3">>,
   <<"Servo - Angle:", "2">>,
   <<"xyz garbage">>,
   <<"LIMIT:", "Z_MIN">>}

NextTelegrams ==
  \/ \E line \in TelegramLines : SerialData(line)
  \/ Connect("ws1")
  \/ \E ok \in BOOLEAN : Listed("ws1", ok)
  \/ Message("ws1", Command("HOME_SYSTEM", Undefined))
  \/ \E t \in tasks : WriteDone(t)

SpecTelegrams == Init /\ [][NextTelegrams]_vars

---------------------------------------------------------------------------
(* The status: state reports, pattern events, link failures.               *)

StatusLines ==
  {<<"State changed:", n>> : n \in StateNames \cup {"HOMED", "UNKNOWN", "BOGUS"}}
  \cup {<<"State changed:">>,
        <<"PATTERN_START", "|", "single_side", "=", "true">>,
        <<"PATTERN_COMPLETE", "|", "single_side", "=", "true">>,
        <<"PATTERN_COMPLETE", "|", "row", "=", "1">>,
        <<"ERROR", "|", "details", "=", "jam">>,
        <<"xyz garbage">>}

NextStatus ==
  \/ \E line \in StatusLines : SerialData(line)
  \/ Connect("ws1")
  \/ \E ok \in BOOLEAN : Listed("ws1", ok)
  \/ Message("ws1", Command("STOP_PAINTING", Undefined))
  \/ \E t \in tasks : WriteDone(t)
  \/ \E t \in tasks : WriteFail(t)
  \/ UptimeTick
  \/ PortError
  \/ PortClose

SpecStatus == Init /\ [][NextStatus]_vars

---------------------------------------------------------------------------
(* A configuration push next to another command.                           *)

\* UPDATE_PATTERN_CONFIG with a new grid.
UpdateGrid == Command("UPDATE_PATTERN_CONFIG", Obj([rows |-> XY(Whole(3), Whole(3))]))

StopPainting == Command("STOP_PAINTING", Undefined)

NextPush ==
  \/ Connect("ws1")
  \/ \E ok \in BOOLEAN : Listed("ws1", ok)
  \/ \E cmd \in {UpdateGrid, StopPainting} : Message("ws1", cmd)
  \/ \E t \in tasks : WriteDone(t)
  \/ \E t \in tasks : WriteFail(t)
  \/ \E t \in tasks : FsDone(t)
  \/ \E t \in tasks : FsFail(t)

SpecPush == Init /\ [][NextPush]_vars

---------------------------------------------------------------------------
(* Commands that are valid, incomplete, out of range or disabled.          *)

\* UPDATE_PATTERN_CONFIG that disables the front side.
DisableFront ==
  Command("UPDATE_PATTERN_CONFIG",
          Obj([enabledSides |-> [s \in Sides |-> s # "front"]]))

\* UPDATE_PATTERN_CONFIG whose travelDistance lacks vertical and lip.
PartialTravel ==
  Command("UPDATE_PATTERN_CONFIG",
          Obj([travelDistance |-> [horizontal |-> XY(Whole(1), Whole(1))]]))

\* Commands without a field their handler needs.
IncompleteCommands ==
  {Command("SET_SPEED", Obj([side |-> Text("front")])),
   Command("SET_PRIME_TIME", Obj([minutes |-> Whole(1)])),
   Command("MOVE", Obj([axis |-> Text("X")])),
   Command("ROTATE_SPINNER", Obj([direction |-> Text("right")])),
   PartialTravel}

\* Commands with a value out of range.
OutOfRangeCommands ==
  {Command("PAINT_PIECE", Obj([row |-> Whole(6), col |-> Whole(0)])),
   Command("SET_SERVO_ANGLE", Obj([angle |-> Whole(181)]))}

ValidCommands ==
  {Command("PAINT_FRONT", Undefined),
   Command("PAINT_PIECE", Obj([row |-> Whole(5), col |-> Whole(8)])),
   DisableFront}

\* A message that is not JSON.
NotJson == [json |-> FALSE, type |-> "", payload |-> Undefined]

Commands == IncompleteCommands \cup OutOfRangeCommands \cup ValidCommands \cup {NotJson}

NextCommands ==
  \/ \E c \in Sockets : Connect(c)
  \/ \E c \in Sockets, ok \in BOOLEAN : Listed(c, ok)
  \/ tasks = {} /\ \E cmd \in Commands : Message("ws1", cmd)
  \/ \E t \in tasks : WriteDone(t)
  \/ \E t \in tasks : WriteFail(t)
  \/ \E t \in tasks : FsDone(t)
  \/ \E t \in tasks : FsFail(t)

SpecCommands == Init /\ [][NextCommands]_vars

---------------------------------------------------------------------------
(* Commands with a range: the grid position of PAINT_PIECE and the angle   *)
(* of SET_SERVO_ANGLE, at and around the ends of their ranges.             *)

PieceRows == {Whole(0 - 1), Whole(0), Num(25), Whole(5), Whole(6), Text("3")}

PieceCols == {Whole(0 - 1), Whole(0), Whole(8), Whole(9)}

PieceCommands ==
  {Command("PAINT_PIECE", Obj([row |-> r, col |-> c])) : r \in PieceRows, c \in PieceCols}
  \cup {Command("PAINT_PIECE", Obj([row |-> Whole(1)])), Command("PAINT_PIECE", Undefined)}

ServoAngles ==
  {Whole(0 - 1), Whole(0), Num(904), Num(905), Whole(180), Num(1804), Whole(181),
   Text("2"), Text("abc"), Str(<<>>), Null, Bool(TRUE)}

ServoCommands ==
  {Command("SET_SERVO_ANGLE", Obj([angle |-> a])) : a \in ServoAngles}
  \cup {Command("SET_SERVO_ANGLE", Obj([speed |-> Whole(1)])),
        Command("SET_SERVO_ANGLE", Undefined)}

MoveCommands ==
  {Command("MOVE_TO_POSITION", Obj([x |-> Whole(1), y |-> Whole(1)])),
   Command("MOVE_TO_POSITION", Obj([x |-> Whole(1), y |-> Whole(1), speed |-> Whole(2)])),
   Command("MOVE_TO_POSITION", Obj([x |-> Whole(0), y |-> Whole(1)])),
   Command("MOVE_TO_POSITION", Obj([x |-> Whole(1), y |-> Whole(0), speed |-> Num(5)])),
   Command("MOVE_TO_POSITION", Obj([x |-> Whole(1), y |-> Whole(1), speed |-> Whole(0)])),
   Command("MOVE_TO_POSITION", Obj([x |-> Whole(1), y |-> Whole(1),
                                    acceleration |-> Whole(0 - 1)])),
   Command("MOVE_TO_POSITION", Obj([x |-> Whole(1)])),
   Command("MOVE_TO_POSITION", Obj([y |-> Whole(1)]))}

NextRanges ==
  \/ \E c \in Sockets : Connect(c)
  \/ \E c \in Sockets, ok \in BOOLEAN : Listed(c, ok)
  \/ tasks = {} /\ \E cmd \in PieceCommands \cup ServoCommands \cup MoveCommands : Message("ws1", cmd)
  \/ \E t \in tasks : WriteDone(t)
  \/ \E t \in tasks : WriteFail(t)
  \/ PortClose

SpecRanges == Init /\ [][NextRanges]_vars

---------------------------------------------------------------------------
(* Manual moves: every direction with START and with STOP, states and      *)
(* directions outside the lists, and speeds given, absent and non-numeric. *)

ManualStates == {Text("START"), Text("STOP"), Text("PAUSE"), Text("stop")}

ManualCommands ==
  {Command("MANUAL_MOVE", Obj([direction |-> Text(d), state |-> st])) :
      d \in ValidDirections \cup {"up"}, st \in ManualStates}
  \cup {Command("MANUAL_MOVE", Obj([direction |-> Text(d), state |-> Text("START"),
                                    speed |-> Num(5), acceleration |-> Num(2)])) :
          d \in {"left", "backward-right"}}
  \cup {Command("MANUAL_MOVE", Obj([direction |-> Text("left"), state |-> Text("START"),
                                    speed |-> Text("fast")])),
        Command("MANUAL_MOVE", Obj([direction |-> Text("left")])),
        Command("MANUAL_MOVE", Obj([state |-> Text("STOP")])),
        Command("MANUAL_MOVE", Undefined)}

NextManual ==
  \/ \E c \in Sockets : Connect(c)
  \/ \E c \in Sockets, ok \in BOOLEAN : Listed(c, ok)
  \/ tasks = {} /\ \E cmd \in ManualCommands : Message("ws1", cmd)
  \/ \E t \in tasks : WriteDone(t)
  \/ \E t \in tasks : WriteFail(t)
  \/ PortClose

SpecManual == Init /\ [][NextManual]_vars

---------------------------------------------------------------------------
(* Paint starts while the enabled sides are being changed.                 *)

\* UPDATE_PATTERN_CONFIG that enables every side, or none.
EnableAll ==
  Command("UPDATE_PATTERN_CONFIG", Obj([enabledSides |-> [s \in Sides |-> TRUE]]))

DisableAll ==
  Command("UPDATE_PATTERN_CONFIG", Obj([enabledSides |-> [s \in Sides |-> FALSE]]))

PaintCommands ==
  {Command("START_PAINTING", Undefined), Command("PAINT_FRONT", Undefined),
   Command("PAINT_LIP", Undefined)}

NextPaint ==
  \/ \E c \in Sockets : Connect(c)
  \/ \E c \in Sockets, ok \in BOOLEAN : Listed(c, ok)
  \/ \E cmd \in PaintCommands : Message("ws1", cmd)
  \/ \E cmd \in {EnableAll, DisableAll, DisableFront} :
       (\A t \in tasks : t.cmd.type # "UPDATE_PATTERN_CONFIG") /\ Message("ws1", cmd)
  \/ \E t \in tasks : WriteDone(t)
  \/ \E t \in tasks : FsDone(t)

SpecPaint == Init /\ [][NextPaint]_vars

---------------------------------------------------------------------------
(* Subscribers that come and go while telegrams are broadcast.             *)

NextSubscribers ==
  \/ \E c \in Sockets : Connect(c)
  \/ \E c \in Sockets, ok \in BOOLEAN : Listed(c, ok)
  \/ \E c \in Sockets : Close(c)
  \/ \E c \in Sockets : SocketError(c)
  \/ \E line \in {<<"LIMIT:", "X_MIN">>, <<"LIMIT_CLEAR:", "X">>} : SerialData(line)
  \/ tasks = {} /\ \E c \in Sockets : Message(c, Command("HEARTBEAT", Undefined))

SpecSubscribers == Init /\ [][NextSubscribers]_vars

---------------------------------------------------------------------------
(* The configuration commands, one handler at a time, with writes that     *)
(* fail and a link that closes.                                            *)

SetSpeed == Command("SET_SPEED", Obj([side |-> Text("front"), value |-> Whole(50)]))

\* 40 s is clamped to 30 s.
SetPrimeTime == Command("SET_PRIME_TIME", Obj([seconds |-> Whole(40)]))

SetCleanTime == Command("SET_CLEAN_TIME", Obj([seconds |-> Whole(20)]))

UpdateMaintenanceAndSpeeds ==
  Command("UPDATE_SETTINGS",
          Obj([maintenance |-> Obj([primeTime |-> Whole(30)]),
               speeds |-> Obj([front |-> Whole(50)])]))

UpdateSettingsPattern ==
  Command("UPDATE_SETTINGS", Obj([pattern |-> Obj([rows |-> XY(Whole(3), Whole(3))])]))

ConfigCommands ==
  {SetSpeed, SetPrimeTime, SetCleanTime, UpdateGrid, UpdateMaintenanceAndSpeeds,
   UpdateSettingsPattern}

NextConfig ==
  \/ \E c \in Sockets : Connect(c)
  \/ \E c \in Sockets, ok \in BOOLEAN : Listed(c, ok)
  \/ tasks = {} /\ \E cmd \in ConfigCommands : Message("ws1", cmd)
  \/ \E t \in tasks : FsDone(t)
  \/ \E t \in tasks : WriteDone(t)
  \/ \E t \in tasks : WriteFail(t)
  \/ PortClose

SpecConfig == Init /\ [][NextConfig]_vars

---------------------------------------------------------------------------
(* A profile is saved, the enabled sides are changed and the profile is    *)
(* loaded again, with writes that fail.                                    *)

SaveProfile == Command("SAVE_CONFIG", Obj([name |-> Text("a")]))

LoadProfile == Command("LOAD_CONFIG", Obj([name |-> Text("a")]))

ProfileCommands == {SaveProfile, DisableFront, LoadProfile}

NextLoad ==
  \/ \E c \in Sockets : Connect(c)
  \/ \E c \in Sockets, ok \in BOOLEAN : Listed(c, ok)
  \/ tasks = {} /\ \E cmd \in ProfileCommands : Message("ws1", cmd)
  \/ \E t \in tasks : FsDone(t)
  \/ \E t \in tasks : WriteDone(t)
  \/ \E t \in tasks : WriteFail(t)

SpecLoad == Init /\ [][NextLoad]_vars

---------------------------------------------------------------------------
(* The configuration store fails under the profile commands, with a        *)
(* second subscriber looking on.                                           *)

GetConfigs == Command("GET_CONFIGS", Undefined)

StoreCommands == {SaveProfile, LoadProfile, GetConfigs}

NextStore ==
  \/ \E c \in Sockets : Connect(c)
  \/ \E c \in Sockets, ok \in BOOLEAN : Listed(c, ok)
  \/ tasks = {} /\ \E c \in Sockets, cmd \in StoreCommands : Message(c, cmd)
  \/ \E t \in tasks : FsDone(t)
  \/ \E t \in tasks : FsFail(t)
  \/ \E t \in tasks : WriteDone(t)
  \/ SerialData(<<"State changed:", "PAUSED">>)

SpecStore == Init /\ [][NextStore]_vars

---------------------------------------------------------------------------
(* Messages that arrive at any moment after the connection.                *)

ArrivingCommands == {StopPainting, Command("NOPE", Undefined)}

NextArrival ==
  \/ \E c \in Sockets : Connect(c)
  \/ \E c \in Sockets, ok \in BOOLEAN : Listed(c, ok)
  \/ \E c \in Sockets, cmd \in ArrivingCommands : MessageUnheard(c, cmd)
  \/ tasks = {} /\ \E c \in Sockets, cmd \in ArrivingCommands : Message(c, cmd)
  \/ \E t \in tasks : WriteDone(t)
  \/ \E c \in Sockets : Close(c)

SpecArrival == Init /\ [][NextArrival]_vars

---------------------------------------------------------------------------
(* One line of every form, and lines in which two checks find something.   *)

FormLines ==
  {<<"Position - X:", "1", "inches, Y:", "2", "inches">>,
   <<"Pressure pot", "activated">>,
   <<"State changed:", "PAUSED">>,
   <<"SPRAY_START", "|", "row", "=", "2">>,
   <<"Position:", "1", ",", "2">>,
   <<"Temperature:", "3">>,
   <<"WARNING:", "low paint">>,
   <<"LIMIT_CLEAR:", "X">>,
   <<"LIMIT:", "X_MIN">>,
   <<"Servo - Angle:", "2">>,
   <<"WARNING:", "low paint", "|", "refill">>,
   <<"WARNING:", "stopped at", "LIMIT:", "X_MAX">>}

NextForms ==
  \/ \E line \in FormLines : SerialData(line)
  \/ Connect("ws1")
  \/ \E ok \in BOOLEAN : Listed("ws1", ok)

SpecForms == Init /\ [][NextForms]_vars

---------------------------------------------------------------------------
(* One telegram of every kind and the failures of the link.                *)

FrameLines ==
  {<<"State changed:", "PAUSED">>,
   <<"PATTERN_START", "|", "row", "=", "2">>,
   <<"PATTERN_COMPLETE", "|", "row", "=", "1">>,
   <<"ERROR", "|", "details", "=", "jam">>,
   <<"MOVE_X", "|", "row", "=", "2">>,
   <<"MOVE_Y", "|", "row", "=", "1">>,
   <<"SPRAY_START", "|", "row", "=", "1">>,
   <<"SPRAY_COMPLETE", "|", "row", "=", "1">>,
   <<"Position - X:", "1", "inches, Y:", "2", "inches">>,
   <<"Temperature:", "3">>,
   <<"Servo - Angle:", "2">>,
   <<"Pressure pot", "activated">>,
   <<"LIMIT:", "X_MIN">>,
   <<"LIMIT_CLEAR:", "X">>,
   <<"WARNING:", "low paint">>}

NextFrame ==
  \/ \E line \in FrameLines : SerialData(line)
  \/ PortError
  \/ PortClose

SpecFrame == Init /\ [][NextFrame]_vars

---------------------------------------------------------------------------
(* Errors reported by the controller, with and without details, to         *)
(* subscribers that come and go.                                           *)

ErrorLines ==
  {<<"ERROR", "|", "details", "=", "jam">>,
   <<"ERROR", "|", "row", "=", "1">>,
   <<"ERROR", "|", "details", "=">>,
   <<"SPRAY_START", "|", "row", "=", "2">>,
   <<"State changed:", "IDLE">>}

NextError ==
  \/ \E line \in ErrorLines : SerialData(line)
  \/ \E c \in Sockets : Connect(c)
  \/ \E c \in Sockets, ok \in BOOLEAN : Listed(c, ok)
  \/ \E c \in Sockets : Close(c)

SpecError == Init /\ [][NextError]_vars

---------------------------------------------------------------------------
(* The properties.                                                         *)

\* The last callback handled this line of the controller.
Handled(line) == ev.kind = "serial" /\ ev.line = line

\* C5: patternProgress.completed_rows never lists a row twice, whatever
\* telegrams (repeated SPRAY_COMPLETE for one row included) and commands
\* arrive.
CompletedRowsDistinct ==
  LET rows == status.patternProgress.completed_rows
  IN \A i, j \in 1..Len(rows) : i # j => rows[i] # rows[j]

\* SPRAY_COMPLETE|row=1 has arrived again after row 0 and a later row were
\* recorded.
CompletedRowsRepeated ==
  /\ Handled(<<"SPRAY_COMPLETE", "|", "row", "=", "1">>)
  /\ status.patternProgress.completed_rows = <<Whole(0), NaN>>

\* C8: after a "State changed:HOMED" line status is HOMED and
\* patternProgress is exactly command 0, total_commands 0, row 0,
\* total_rows 9, no completed row, not single_side, pattern "", duration 0
\* and no axis.
HomedResetsProgress ==
  Handled(<<"State changed:", "HOMED">>) =>
    /\ status.status = "HOMED"
    /\ status.patternProgress =
         [command |-> Num(0), total_commands |-> Num(0), row |-> Num(0),
          total_rows |-> Num(90), completed_rows |-> <<>>,
          single_side |-> Bool(FALSE), pattern |-> Str(<<>>), duration |-> Num(0),
          axis |-> Undefined]

\* The HOMED line has been handled and its snapshot went to a subscriber.
HomedHandled ==
  /\ Handled(<<"State changed:", "HOMED">>)
  /\ Len(sent) = 1 /\ sent[1].type = "STATE_UPDATE" /\ sent[1].to = {"ws1"}
  /\ sent[1].payload.status = "HOMED"

\* The keyed events of the switch in processSerialResponse.
RecognisedEvents ==
  {"PATTERN_START", "PATTERN_COMPLETE", "SPRAY_COMPLETE", "SPRAY_START", "MOVE_X",
   "MOVE_Y", "ERROR"}

\* The line is EVENT|row=N with N a whole number.
CarriesRow(line) ==
  /\ Len(line) = 5 /\ line[2] = "|" /\ line[3] = "row" /\ line[4] = "="
  /\ line[5] \in DigitLexemes

\* N - 1 of such a line.
RowBefore(line) == Num(10 * (DigitValue(line[5]) - 1))

\* C9, as stated: after every recognised keyed event that carries row=N,
\* patternProgress.row is N - 1.
RowFollowsEveryKeyedEvent ==
  (ev.kind = "serial" /\ CarriesRow(ev.line) /\ ev.line[1] \in RecognisedEvents)
    => status.patternProgress.row = RowBefore(ev.line)

\* C9: PATTERN_START, SPRAY_START, MOVE_X and MOVE_Y carrying row=N set
\* patternProgress.row to N - 1; SPRAY_COMPLETE, PATTERN_COMPLETE, ERROR and
\* the event types the switch does not list leave row as it was.
RowFollowsRowEvents ==
  [][(ev'.kind = "serial" /\ CarriesRow(ev'.line)) =>
       IF ev'.line[1] \in {"PATTERN_START", "SPRAY_START", "MOVE_X", "MOVE_Y"}
       THEN status'.patternProgress.row = RowBefore(ev'.line)
       ELSE status'.patternProgress.row = status.patternProgress.row]_vars

\* SPRAY_START|row=2 has set row 1.
RowSetBySprayStart ==
  /\ Handled(<<"SPRAY_START", "|", "row", "=", "2">>)
  /\ status.patternProgress.row = Num(10)


\* The STATE_UPDATE messages among those a callback sent, in order.
StateUpdates(msgs) == SelectSeq(msgs, LAMBDA msg : msg.type = "STATE_UPDATE")

\* The system state without the raw line kept for diagnosis.
Reported(st) == [st EXCEPT !.lastSerialMessage = <<>>]

\* C4: a telegram is applied in one piece, also while a command handler is
\* suspended at an awaited write: when its callback ends, every snapshot it
\* caused has been sent to every open subscriber, the last snapshot is the
\* state the telegram left, a changed state was broadcast, and no handler
\* has moved meanwhile.
TelegramsAppliedAtomically ==
  [][ev'.kind = "serial" =>
       LET ups == StateUpdates(sent')
       IN /\ tasks' = tasks /\ link' = link
          /\ \A i \in 1..Len(ups) : ups[i].to = OpenClients
          /\ ups # <<>> => ups[Len(ups)].payload = status'
          /\ Reported(status') # Reported(status) => ups # <<>>]_vars

\* A limit telegram was applied and its snapshot sent while the handler of
\* HOME_SYSTEM waits for its write to complete.
TelegramDuringAwaitedWrite ==
  /\ Handled(<<"LIMIT:", "X_MAX">>)
  /\ \E t \in tasks : Awaiting(t, "write") /\ t.cmd.type = "HOME_SYSTEM"
  /\ Len(sent) = 1 /\ sent[1].to = {"ws1"} /\ sent[1].payload.limitSwitches.x.max

NoFlags == [min |-> FALSE, max |-> FALSE]

\* The limit flags the documented forms of the line ask for: a line that
\* reaches the LIMIT check raises the one flag it names, LIMIT_CLEAR:<axis>
\* lowers both flags of that axis, every other line keeps all four.
ExpectedLimitSwitches(ls, line) ==
  CASE line = <<"LIMIT:", "X_MIN">> -> [ls EXCEPT !.x = [min |-> TRUE, max |-> ls.x.max]]
    [] line = <<"LIMIT:", "X_MAX">> -> [ls EXCEPT !.x = [min |-> ls.x.min, max |-> TRUE]]
    [] line = <<"Pressure pot", "activated", "LIMIT:", "Y_MAX">> ->
         [ls EXCEPT !.y = [min |-> ls.y.min, max |-> TRUE]]
    [] line = <<"LIMIT_CLEAR:", "X">> -> [ls EXCEPT !.x = NoFlags]
    [] line = <<"LIMIT_CLEAR:", "Y">> -> [ls EXCEPT !.y = NoFlags]
    [] OTHER -> ls

Unrecognised(line) == line \in {<<"xyz garbage">>, <<"LIMIT:", "Z_MIN">>}

StatusNames ==
  {"IDLE", "HOMING_X", "HOMING_Y", "HOMING_ROTATION", "HOMED", "STOPPED", "PAUSED",
   "EXECUTING_PATTERN", "ERROR", "CYCLE_COMPLETE", "CLEANING", "PAINTING_SIDE",
   "MANUAL_ROTATING", "PRIMING", "UNKNOWN"}

StatusIsEnumMember ==
  /\ status.status \in StatusNames
  /\ (ev.kind = "serial" /\ ev.line[1] = "State changed:"
        /\ (Len(ev.line) = 1 \/ ev.line[2] \notin StatusNames))
       => status.status = "UNKNOWN"

\* "State changed:BOGUS" arrived and the status is UNKNOWN.
UnknownStateReported ==
  Handled(<<"State changed:", "BOGUS">>) /\ status.status = "UNKNOWN"


PushCommands == {"UPDATE_PATTERN_CONFIG", "UPDATE_SETTINGS", "LOAD_CONFIG"}

\* C1: the lines of a configuration push reach the link one after the
\* other: when a push has just written its second or a later line, the line
\* written before it is its own.
PushLinesContiguous ==
  \A t \in tasks :
    (t.cmd.type \in PushCommands /\ Awaiting(t, "write") /\ t.wrote >= 2 /\ link.by = t.id)
      => link.prev = t.id

\* The callbacks in which a command handler runs.
HandlerEvents == {"message", "writeDone", "writeFail", "fsDone", "fsFail"}

\* The handler of the last callback has ended with an ERROR message for what
\* the command lacks or for a value it may not have.
Rejected ==
  /\ ev.kind \in HandlerEvents /\ ev.done
  /\ \/ ev.outcome = "rejected"
     \/ ev.outcome = "threw" /\ ev.error = "TypeError"

\* C2: a rejected command has not changed the system state or the
\* settings store and has written no line to the link.
RejectedLeavesNoTrace ==
  Rejected => (~ev.mutated /\ ev.wrote = 0)

\* C3: every command that lacks a required field, has a value out of range
\* or addresses a disabled side is answered with an ERROR message, sent to
\* the requester and to nobody else.
InvalidCommandAnswered ==
  (/\ ev.kind = "message"
   /\ \/ ev.cmd \in IncompleteCommands \cup OutOfRangeCommands
      \/ ev.cmd.type = "PAINT_FRONT" /\ ~settings.pattern.enabledSides["front"])
    => /\ \E i \in 1..Len(sent) : sent[i].type = "ERROR"
       /\ \A i \in 1..Len(sent) : sent[i].type = "ERROR" => sent[i].to = {ev.ws}


\* The messages of a type among those the last callback sent.
OfType(msgs, type) == SelectSeq(msgs, LAMBDA msg : msg.type = type)

\* The payload names a position of the 6 x 9 grid.
InGrid(p) ==
  /\ p.t = "object" /\ {"row", "col"} \subseteq DOMAIN p.v
  /\ p.v.row.t = "number" /\ p.v.row.v >= 0 /\ p.v.row.v < 60
  /\ p.v.col.t = "number" /\ p.v.col.v >= 0 /\ p.v.col.v < 90

\* C11: with the link open, PAINT_PIECE{row,col} is accepted exactly when
\* row is in [0,6) and col in [0,9); it then writes the one line
\* PAINT_PIECE <row> <col> and ends when that write completes.  For every
\* other row or col the requester alone is sent one ERROR and nothing is
\* written.
PaintPieceByRange ==
  [][/\ (ev'.kind = "message" /\ ev'.cmd.type = "PAINT_PIECE" /\ portOpen) =>
          IF InGrid(ev'.cmd.payload)
          THEN /\ link'.by = ev'.task
               /\ link'.line = [keyword |-> "PAINT_PIECE",
                                args |-> <<ev'.cmd.payload.v.row, ev'.cmd.payload.v.col>>]
               /\ ev'.wrote = 1 /\ sent' = <<>>
          ELSE /\ ev'.outcome = "rejected" /\ ev'.done
               /\ link' = link /\ ev'.wrote = 0
               /\ Len(sent') = 1 /\ sent'[1].type = "ERROR" /\ sent'[1].to = {ev'.ws}
               /\ status' = status /\ settings' = settings
     /\ (ev'.kind = "writeDone" /\ ev'.cmd.type = "PAINT_PIECE") =>
          (ev'.done /\ ev'.wrote = 1 /\ link' = link /\ sent' = <<>>)]_vars

\* PAINT_PIECE{row:5,col:8} has written its line and the write completed,
\* with a second subscriber connected.
PaintPieceWritten ==
  /\ ev.kind = "writeDone" /\ ev.cmd.type = "PAINT_PIECE"
  /\ link.line = [keyword |-> "PAINT_PIECE", args |-> <<Num(50), Num(80)>>]
  /\ clients = {"ws1", "ws2"}

\* The angle of the payload is a number or the text of a number.
NumericAngle(p) ==
  /\ p.t = "object" /\ "angle" \in DOMAIN p.v
  /\ \/ p.v.angle.t = "number"
     \/ p.v.angle.t = "string" /\ Len(p.v.angle.v) = 1 /\ p.v.angle.v[1] \in DigitLexemes

\* C12: SET_SERVO_ANGLE is accepted only when its angle is numeric and in
\* [0,180]; a missing or non-numeric angle, 181 and -1 are rejected and
\* write nothing.
ServoAngleByRange ==
  (ev.kind = "message" /\ ev.cmd.type = "SET_SERVO_ANGLE" /\ portOpen) =>
    IF NumericAngle(ev.cmd.payload)
       /\ (ev.cmd.payload.v.angle.t = "number" =>
             (ev.cmd.payload.v.angle.v >= 0 /\ ev.cmd.payload.v.angle.v <= 1800))
    THEN ev.wrote = 1 /\ link.by = ev.task /\ link.line.keyword = "SERVO"
    ELSE ev.outcome = "rejected" /\ ev.wrote = 0


\* The waits before the first to the fifth attempt, in milliseconds.
BackoffDelays == <<1000, 2000, 4000, 8000, 16000>>

\* C13: after a link loss the k-th consecutive attempt to reopen waits
\* 1, 2, 4, 8, 16 seconds for k = 1..5, and when the fifth attempt has
\* failed (the sixth failure in a row, the loss included) no retry is
\* started.
ReconnectBackoff ==
  [][/\ ev'.kind = "portClose" =>
          (reconnect'.attempts = 1 /\ reconnect'.timer = BackoffDelays[1])
     /\ ev'.kind = "retryTimer" =>
          (ev'.delay = BackoffDelays[reconnect.attempts] /\ reconnect'.opening)
     /\ ev'.kind = "openFail" =>
          IF reconnect.attempts < 5
          THEN /\ reconnect'.attempts = reconnect.attempts + 1
               /\ reconnect'.timer = BackoffDelays[reconnect.attempts + 1]
               /\ ~reconnect'.opening
          ELSE reconnect'.timer = 0 /\ ~reconnect'.opening /\ ~portOpen']_vars

\* The fifth attempt starts after its wait of 16 seconds.
FifthAttemptStarted ==
  ev.kind = "retryTimer" /\ ev.delay = 16000 /\ reconnect.attempts = 5

\* The attempts are used up: none is in flight and no timer is pending.
Exhausted ==
  /\ reconnect.enabled /\ reconnect.attempts = 5
  /\ reconnect.timer = 0 /\ ~reconnect.opening /\ ~portOpen

\* The notification that the attempts are used up went to every open
\* subscriber.
GaveUp(msgs, open) ==
  \E i \in 1..Len(msgs) :
    /\ msgs[i].type = "WARNING" /\ msgs[i].payload.title = "Connection Failed"
    /\ msgs[i].payload.severity = "high" /\ msgs[i].to = open

\* C14: once the attempts are used up the supervisor stays so: the link
\* is never opened again and no timer is set; the high-severity
\* notification is broadcast when the supervisor gets there and at no
\* other time.
ExhaustedIsTerminal ==
  [][/\ Exhausted =>
          (Exhausted' /\ ev'.kind \notin {"retryTimer", "openDone", "openFail"})
     /\ GaveUp(sent', OpenClients) <=> (~Exhausted /\ Exhausted')
     /\ (\E i \in 1..Len(sent') : sent'[i].type = "WARNING"
             /\ sent'[i].payload.title = "Connection Failed")
          => (~Exhausted /\ Exhausted')]_vars

\* A command arrives after the attempts are used up and finds the link closed.
CommandAfterExhausted ==
  /\ Exhausted /\ ev.kind = "message" /\ ev.error = "Serial port not connected"

\* C15: the attempt counter stays within 0..5 and is zero whenever the
\* link is open, so the loss after a successful reopen starts again with
\* the base delay and the first of five attempts.
AttemptsResetByOpen ==
  /\ reconnect.attempts \in 0..5
  /\ portOpen => (reconnect.attempts = 0 /\ reconnect.timer = 0 /\ ~reconnect.opening)
  /\ ev.kind = "openDone" => (portOpen /\ reconnect.attempts = 0)
  /\ ev.kind = "portClose" => (reconnect.attempts = 1 /\ reconnect.timer = 1000)

\* The third attempt has opened the link and the counter is back at zero.
ReopenedAtThirdAttempt ==
  ev.kind = "openDone" /\ ev.attempts = 3 /\ reconnect.attempts = 0 /\ portOpen

\* C16: with the build that retries, a link error event and a link close
\* event each schedule a retry of the open.
ErrorAndCloseScheduleRetry ==
  (reconnect.enabled /\ ev.kind \in {"portError", "portClose"}) => reconnect.timer # 0

\* A high-severity WARNING went to every open subscriber.
HighWarning(msgs, open) ==
  \E i \in 1..Len(msgs) :
    /\ msgs[i].type = "WARNING" /\ msgs[i].payload.severity = "high"
    /\ msgs[i].to = open

LinkFailureForcesError ==
  (ev.kind \in HandlerEvents /\ ev.error \in SeriousMessages)
    => (status.status = "ERROR" /\ HighWarning(sent, OpenClients))

\* C19: a subscriber whose channel has closed or failed is no longer in
\* the active set, whenever in the life of the connection that happened.
ClosedSubscriberRemoved ==
  \A c \in Sockets : sock[c].readyState \in {"CLOSED", "CLOSING"} => c \notin clients

PaintKeyword(type) ==
  CASE type = "START_PAINTING" -> "START" [] type = "PAINT_FRONT" -> "FRONT"
    [] type = "PAINT_RIGHT" -> "RIGHT"    [] type = "PAINT_BACK" -> "BACK"
    [] type = "PAINT_LEFT" -> "LEFT"      [] type = "PAINT_LIP" -> "LIP"

PaintNeeds(type) ==
  CASE type = "START_PAINTING" -> {"front", "right", "back", "left", "lip"}
    [] type = "PAINT_FRONT" -> {"front"} [] type = "PAINT_RIGHT" -> {"right"}
    [] type = "PAINT_BACK" -> {"back"}   [] type = "PAINT_LEFT" -> {"left"}
    [] type = "PAINT_LIP" -> {"lip"}

PaintTypes ==
  {"START_PAINTING", "PAINT_FRONT", "PAINT_RIGHT", "PAINT_BACK", "PAINT_LEFT", "PAINT_LIP"}

\* C21: a paint-start line is written only if the configuration allows it
\* when the command is handled: START with at least one side enabled, a
\* side keyword with that side enabled; otherwise the requester is sent an
\* ERROR and nothing is written.  No other callback writes such a line.
PaintOnlyIfEnabled ==
  [][/\ (ev'.kind = "message" /\ ev'.cmd.type \in PaintTypes) =>
          IF \E s \in PaintNeeds(ev'.cmd.type) : settings.pattern.enabledSides[s]
          THEN /\ link'.by = ev'.task /\ ev'.wrote = 1 /\ sent' = <<>>
               /\ link'.line = [keyword |-> PaintKeyword(ev'.cmd.type), args |-> <<>>]
          ELSE /\ link' = link /\ ev'.wrote = 0 /\ ev'.done
               /\ Len(sent') = 1 /\ sent'[1].type = "ERROR" /\ sent'[1].to = {ev'.ws}
     /\ (link' # link /\ link'.line.keyword \in {"START", "FRONT", "RIGHT", "BACK", "LEFT", "LIP"})
          => (ev'.kind = "message" /\ ev'.cmd.type \in PaintTypes
                /\ PaintKeyword(ev'.cmd.type) = link'.line.keyword
                /\ \E s \in PaintNeeds(ev'.cmd.type) : settings'.pattern.enabledSides[s])]_vars

\* START_PAINTING is refused with every side disabled, while the push that
\* disabled them is still writing its lines.
StartRefusedDuringPush ==
  /\ ev.kind = "message" /\ ev.cmd.type = "START_PAINTING" /\ ev.outcome = "rejected"
  /\ \E t \in tasks : t.cmd = DisableAll /\ Awaiting(t, "write")


\* The field is absent, or a number in (0,1].
AbsentOrUnit(p, field) ==
  field \in DOMAIN p.v => (p.v[field].t = "number" /\ p.v[field].v > 0 /\ p.v[field].v <= 10)

\* C22: MOVE_TO_POSITION is accepted whenever x and y are both present
\* numbers and speed and acceleration are absent or in (0,1], and then
\* writes GOTO <x> <y> with two decimals; otherwise it is rejected.
MoveToPositionByPresence ==
  (ev.kind = "message" /\ ev.cmd.type = "MOVE_TO_POSITION" /\ portOpen) =>
    LET p == ev.cmd.payload
    IN IF /\ {"x", "y"} \subseteq DOMAIN p.v /\ p.v.x.t = "number" /\ p.v.y.t = "number"
          /\ AbsentOrUnit(p, "speed") /\ AbsentOrUnit(p, "acceleration")
       THEN /\ ev.wrote = 1 /\ link.by = ev.task
            /\ link.line = [keyword |-> "GOTO",
                            args |-> <<[t |-> "text", hundredths |-> 10 * p.v.x.v],
                                       [t |-> "text", hundredths |-> 10 * p.v.y.v]>>]
       ELSE ev.outcome = "rejected" /\ ev.wrote = 0


\* The field is absent or a number.
AbsentOrNumber(p, field) == Get(p, field) = Undefined \/ Get(p, field).t = "number"

\* The axis and sign of a cardinal direction, the two signed axes of a
\* diagonal one.
ExpectedMove ==
  [left     |-> <<"MANUAL_MOVE", "X", "-">>, right   |-> <<"MANUAL_MOVE", "X", "+">>,
   forward  |-> <<"MANUAL_MOVE", "Y", "+">>, backward |-> <<"MANUAL_MOVE", "Y", "-">>]
  @@ ("forward-right"  :> <<"MANUAL_MOVE_DIAGONAL", "X+", "Y+">>)
  @@ ("forward-left"   :> <<"MANUAL_MOVE_DIAGONAL", "X-", "Y+">>)
  @@ ("backward-right" :> <<"MANUAL_MOVE_DIAGONAL", "X+", "Y-">>)
  @@ ("backward-left"  :> <<"MANUAL_MOVE_DIAGONAL", "X-", "Y-">>)

ConfigTypes ==
  {"SET_SPEED", "SET_PRIME_TIME", "SET_CLEAN_TIME", "UPDATE_PATTERN_CONFIG",
   "UPDATE_SETTINGS"}

\* The handler of the last callback returned without an error, having
\* accepted its command.
Completed == ev.kind \in {"message", "fsDone", "writeDone"} /\ ev.done
             /\ ev.outcome = "accepted" /\ ev.error = ""

\* C24: every accepted SET_SPEED, SET_PRIME_TIME, SET_CLEAN_TIME,
\* UPDATE_PATTERN_CONFIG and UPDATE_SETTINGS command has broadcast a
\* SETTINGS_UPDATE by the time its handler returns.
ConfigChangeBroadcast ==
  (Completed /\ ev.cmd.type \in ConfigTypes) =>
    \E i \in 1..Len(ev.trace) : ev.trace[i].did = "broadcast"
                                 /\ ev.trace[i].what = "SETTINGS_UPDATE"


\* The lines a handler has handed to the link, in order, and their keywords.
Written(trace) == SelectSeq(trace, LAMBDA e : e.did = "write")

Keywords(trace) == [i \in 1..Len(Written(trace)) |-> Written(trace)[i].what]

\* The pattern sequence: travel distances of the three axis groups, grid,
\* enabled sides, and the offset of each of the five sides.
PatternSequence ==
  <<"SET_HORIZONTAL_TRAVEL", "SET_VERTICAL_TRAVEL", "SET_LIP_TRAVEL", "SET_GRID",
    "SET_ENABLED_SIDES", "SET_OFFSET", "SET_OFFSET", "SET_OFFSET", "SET_OFFSET",
    "SET_OFFSET">>

\* The trace holds the grid, every travel line, the enabled sides and, for
\* each side, an offset line with x, y and angle.
HasFullSequence(trace) ==
  /\ \A k \in {"SET_GRID", "SET_HORIZONTAL_TRAVEL", "SET_VERTICAL_TRAVEL", "SET_LIP_TRAVEL",
                "SET_ENABLED_SIDES"} :
        \E i \in 1..Len(trace) : trace[i].did = "write" /\ trace[i].what = k
  /\ \A side \in Sides :
        \E i \in 1..Len(trace) :
          /\ trace[i].did = "write" /\ trace[i].what = "SET_OFFSET"
          /\ Len(trace[i].args) = 4 /\ trace[i].args[1] = Text(side)

Repeat(k, n) == [i \in 1..n |-> k]

\* The keywords each configuration command writes.
ExpectedKeywords(cmd) ==
  LET p == cmd.payload
  IN CASE cmd.type = "SET_SPEED"      -> <<"SPEED">>
       [] cmd.type = "SET_PRIME_TIME" -> <<"PRIME_TIME">>
       [] cmd.type = "SET_CLEAN_TIME" -> <<"CLEAN_TIME">>
       [] cmd.type = "UPDATE_PATTERN_CONFIG" -> PatternSequence
       [] cmd.type = "UPDATE_SETTINGS" ->
            (IF "maintenance" \in DOMAIN p.v
             THEN <<"PRIME_TIME", "CLEAN_TIME", "BACK_WASH_TIME">> ELSE <<>>)
            \o (IF "speeds" \in DOMAIN p.v
                THEN Repeat("SPEED", Cardinality(DOMAIN p.v.speeds.v)) ELSE <<>>)
            \o (IF "pattern" \in DOMAIN p.v THEN PatternSequence ELSE <<>>)

\* C25 (as stated): every accepted configuration command writes the full
\* outbound configuration sequence.
FullSequenceWritten ==
  (Completed /\ ev.cmd.type \in ConfigTypes) => HasFullSequence(ev.trace)

\* C25 (amended): UPDATE_PATTERN_CONFIG, and UPDATE_SETTINGS with a pattern
\* part, write the pattern sequence (three travel lines, SET_GRID,
\* SET_ENABLED_SIDES, five SET_OFFSET lines with angle); SET_SPEED writes
\* only its SPEED line, SET_PRIME_TIME only PRIME_TIME, SET_CLEAN_TIME only
\* CLEAN_TIME; UPDATE_SETTINGS writes the three maintenance lines for a
\* maintenance part and one SPEED line per speed given.
ConfigLinesWritten ==
  (Completed /\ ev.cmd.type \in ConfigTypes) =>
    /\ Keywords(ev.trace) = ExpectedKeywords(ev.cmd)
    /\ ( \/ ev.cmd.type = "UPDATE_PATTERN_CONFIG"
         \/ ev.cmd.type = "UPDATE_SETTINGS" /\ "pattern" \in DOMAIN ev.cmd.payload.v )
       => HasFullSequence(ev.trace)

\* UPDATE_SETTINGS with a pattern part has finished its push.
SettingsPatternPushed ==
  Completed /\ ev.cmd = UpdateSettingsPattern /\ ev.wrote = 10


\* C26: a successful LOAD_CONFIG writes the full outbound configuration
\* sequence of the loaded profile: SET_GRID, every travel line, SET_OFFSET
\* with angle for each side, and SET_ENABLED_SIDES.
LoadPushesFullSequence ==
  (Completed /\ ev.cmd.type = "LOAD_CONFIG") => HasFullSequence(ev.trace)


\* The callbacks in which a handler runs.
HandlerCallbacks == {"message", "fsDone", "fsFail", "writeDone", "writeFail"}

\* C27: a configuration command updates the store before it writes: no
\* update of the store follows a line the handler has already handed to
\* the link.
UpdatesBeforeLines ==
  (ev.kind \in HandlerCallbacks /\ ev.cmd.type \in ConfigTypes) =>
    \A i, j \in 1..Len(ev.trace) :
      ~(i < j /\ ev.trace[i].did = "write" /\ ev.trace[j].did = "update")


IsPrefix(a, b) == Len(a) <= Len(b) /\ \A i \in 1..Len(a) : a[i] = b[i]

\* The encoding of LOAD_CONFIG: speeds, maintenance times, travel lines,
\* grid and offsets.
LoadSequence ==
  Repeat("SPEED", 5) \o <<"PRIME_TIME", "CLEAN_TIME", "BACK_WASH_TIME">>
  \o <<"SET_HORIZONTAL_TRAVEL", "SET_VERTICAL_TRAVEL", "SET_LIP_TRAVEL", "SET_GRID">>
  \o Repeat("SET_OFFSET", 5)

Encoding(cmd) ==
  CASE cmd.type = "LOAD_CONFIG" -> LoadSequence
    [] cmd.type \in ConfigTypes -> ExpectedKeywords(cmd)
    [] OTHER -> <<>>

\* C28: within one command the lines are written in the order of the
\* command's encoding, one per callback; every line after the first is
\* written in the callback that reports the previous write as done; when a
\* write fails the handler ends there, leaving the link as it was, so none
\* of its remaining lines is written.
SequentialWrites ==
  [][ ev'.kind \in HandlerCallbacks =>
        LET before == IF ev'.kind = "message" THEN <<>>
                      ELSE Keywords((CHOOSE t \in tasks : t.id = ev'.task).trace)
            lines  == Keywords(ev'.trace)
        IN /\ IsPrefix(before, lines)
           /\ IsPrefix(lines, Encoding(ev'.cmd))
           /\ Len(lines) <= Len(before) + 1
           /\ Len(lines) = Len(before) + 1 =>
                /\ link'.by = ev'.task /\ link'.line.keyword = lines[Len(lines)]
                /\ ~ev'.done
                /\ Len(before) > 0 => ev'.kind = "writeDone"
           /\ Len(lines) = Len(before) => link' = link
           /\ ev'.kind = "writeFail" =>
                /\ ev'.done /\ lines = before
                /\ \A t \in tasks' : t.id # ev'.task
    ]_vars

\* A write of LOAD_CONFIG failed in the middle of its push.
LoadWriteFailed ==
  /\ ev.kind = "writeFail" /\ ev.cmd.type = "LOAD_CONFIG"
  /\ ev.wrote = 9 /\ ev.done /\ tasks = {}


\* The line carries single_side=true.
SingleSideTrue(line) ==
  \E i \in 1..Len(line) - 2 :
    line[i] = "single_side" /\ line[i + 1] = "=" /\ line[i + 2] = "true"

\* C29: PATTERN_COMPLETE sets the status to IDLE when the line carries
\* single_side=true and to HOMED otherwise, sets patternProgress.command to 0
\* and empties completed_rows, and leaves every other field of
\* patternProgress as it was.
PatternCompleteResets ==
  [][(ev'.kind = "serial" /\ ev'.line[1] = "PATTERN_COMPLETE") =>
       /\ status'.status = IF SingleSideTrue(ev'.line) THEN "IDLE" ELSE "HOMED"
       /\ status'.patternProgress =
            [status.patternProgress EXCEPT !.command = Whole(0), !.completed_rows = <<>>]
    ]_vars

\* A single-side pattern completed: IDLE, with the row of the last spray kept.
SingleSideCompleted ==
  /\ Handled(<<"PATTERN_COMPLETE", "|", "single_side", "=", "true">>)
  /\ status.status = "IDLE"
  /\ status.patternProgress.row = Num(10)
  /\ status.patternProgress.completed_rows = <<>>


\* The telegrams that report one scalar, and the field each reports.
OwnField ==
  ("Position - X:" :> "position") @@ ("Temperature:" :> "systemInfo")
  @@ ("Servo - Angle:" :> "servoAngle") @@ ("Pressure pot" :> "pressurePotActive")

\* The lines that may change the status, and those that may not.
StatusChangers == {"State changed:", "PATTERN_START", "PATTERN_COMPLETE", "ERROR"}

StatusKeepers ==
  {"MOVE_X", "MOVE_Y", "SPRAY_START", "SPRAY_COMPLETE", "Position - X:", "Temperature:",
   "Servo - Angle:", "Pressure pot", "LIMIT:", "LIMIT_CLEAR:", "WARNING:"}

\* status changes only with a State changed, PATTERN_START, PATTERN_COMPLETE
\* or ERROR line or a failure of the link, and the other lines leave it.
StatusChangedOnlyBy ==
  /\ status'.status # status.status =>
       \/ ev'.kind \in {"portError", "portClose"}
       \/ ev'.kind = "serial" /\ ev'.line[1] \in StatusChangers
  /\ (ev'.kind = "serial" /\ ev'.line[1] \in StatusKeepers) =>
       status'.status = status.status

\* A scalar telegram leaves every field outside `allowed` as it was, and the
\* uptime with them.
ScalarTelegramChangesOnly(allowed) ==
  (ev'.kind = "serial" /\ ev'.line[1] \in DOMAIN OwnField) =>
    /\ \A f \in DOMAIN status \ allowed : status'[f] = status[f]
    /\ status'.systemInfo.uptime = status.systemInfo.uptime

Warnings(msgs) == SelectSeq(msgs, LAMBDA msg : msg.type = "WARNING")

\* The text after details= in the line, or the default.
ExpectedErrorMessage(line) ==
  IF \E i \in 1..Len(line) - 2 : line[i] = "details" /\ line[i + 1] = "="
  THEN LET i == CHOOSE k \in 1..Len(line) - 2 : line[k] = "details" /\ line[k + 1] = "="
       IN Str(<<line[i + 2]>>)
  ELSE Str(<<"Unknown error occurred">>)

\* C31: an ERROR keyed event sets status to ERROR, leaves patternProgress
\* as it was and broadcasts exactly one WARNING of high severity to all open
\* subscribers, carrying the line's details or, without details, "Unknown
\* error occurred".
ErrorEventReported ==
  [][(ev'.kind = "serial" /\ ev'.line[1] = "ERROR") =>
       /\ status'.status = "ERROR"
       /\ status'.patternProgress = status.patternProgress
       /\ Len(Warnings(sent')) = 1
       /\ Warnings(sent')[1].to = OpenClients
       /\ Warnings(sent')[1].payload =
            [title |-> "Error", message |-> ExpectedErrorMessage(ev'.line),
             severity |-> "high"]
    ]_vars

\* An error without details reached the one subscriber that is still open,
\* with the row of an earlier spray in place.
ErrorWithoutDetailsReported ==
  /\ Handled(<<"ERROR", "|", "row", "=", "1">>)
  /\ OpenClients = {"ws2"} /\ sock["ws1"].readyState # "NONE"
  /\ status.patternProgress.row = Num(10)
  /\ Len(Warnings(sent)) = 1
  /\ Warnings(sent)[1].payload.message = Str(<<"Unknown error occurred">>)


\* C32: with the reconnect policy enabled, a timer that fires when set and
\* opens that call back, a lost link is eventually open again or the
\* supervisor is exhausted; the callback that exhausts it emits the
\* maximum-attempts notification.
ReconnectSettles ==
  /\ (reconnect.enabled /\ ~portOpen) ~> (portOpen \/ Exhausted)
  /\ []((ev.kind = "openFail" /\ Exhausted) => GaveUp(sent, OpenClients))

\* The fifth open has failed and the subscribers were told.
ExhaustedAndNotified ==
  ev.kind = "openFail" /\ Exhausted /\ GaveUp(sent, OpenClients) /\ OpenClients = {"ws1"}

\* C35: at most one retry is under way for a loss: the timers pending and the
\* opens in flight never number more than one together, after a loss and
\* after every failed attempt.
OneRetryUnderWay ==
  /\ reconnect.pending + reconnect.opens <= 1
  /\ reconnect.pending = 1 <=> reconnect.timer > 0
  /\ reconnect.opens = 1 <=> reconnect.opening

\* A failed attempt has set the timer of the fourth one, and it is the only one.
TimerSetAfterFailedAttempt ==
  /\ ev.kind = "openFail"
  /\ reconnect.attempts = 4
  /\ reconnect.pending = 1
  /\ reconnect.opens = 0

\* C39: a line of the controller is applied once, whatever the number of
\* losses and re-opens before it: the state and the messages after it are
\* those of one call of processSerialResponse.
LineAppliedOnce ==
  [][ev'.kind = "serial" =>
       LET m == ProcessSerialResponse(status, ev'.line)
       IN status' = m.status /\ sent' = m.sent]_vars

\* After a re-open, the IDLE report has been applied and sent once to the
\* subscriber.
LineAppliedOnceAfterReopen ==
  /\ reconnect.reopened
  /\ ev.kind = "serial"
  /\ status.status = "IDLE"
  /\ OpenClients = {"ws1"}
  /\ Len(sent) = 1
  /\ sent[1].type = "STATE_UPDATE"

\* C40: the re-open leaves the state as the loss left it, in ERROR, sends
\* nothing and writes nothing to the link; the state leaves ERROR only with
\* a line of the controller.
ReopenKeepsState ==
  /\ [][ev'.kind = "openDone" =>
          /\ status' = status
          /\ status'.status = "ERROR"
          /\ link' = link
          /\ settings' = settings
          /\ tasks' = tasks
          /\ sent' = <<>>]_vars
  /\ [][(status.status = "ERROR" /\ status'.status # "ERROR") => ev'.kind = "serial"]_vars

\* The link is open again and the state is still ERROR.
ReopenedInError ==
  /\ ev.kind = "openDone"
  /\ portOpen
  /\ reconnect.reopened
  /\ status.status = "ERROR"

\* C37: the counters of patternProgress (command, total_commands, row,
\* duration) are whole numbers in every state, also after keyed events that
\* leave a key out or give it a value that is no number.
ProgressCountersAreIntegers ==
  \A f \in {"command", "total_commands", "row", "duration"} :
    /\ IsNum(status.patternProgress[f])
    /\ status.patternProgress[f].v % 10 = 0

\* C38: HOME_SYSTEM resets patternProgress to that of a homed machine
\* (pattern FRONT, no completed rows) in the step in which the write of
\* HOME completes, and changes nothing else of the state then; while the
\* write is awaited the state is as it was; when the write fails or the
\* link is not open, patternProgress is as it was and status is ERROR.
HomeResetsAfterWrite ==
  [][(ev'.kind \in HandlerCallbacks /\ ev'.cmd.type = "HOME_SYSTEM") =>
       CASE ev'.outcome = "threw" ->
              /\ status' = [status EXCEPT !.status = "ERROR"]
              /\ ev'.error \in SeriousMessages
              /\ ev'.kind = "writeFail" \/ (ev'.kind = "message" /\ ~portOpen)
         [] ~ev'.done ->
              /\ status' = status
              /\ ev'.kind = "message" /\ portOpen
              /\ link'.by = ev'.task /\ link'.line.keyword = "HOME"
         [] OTHER ->
              /\ status' = [status EXCEPT !.patternProgress = HomePatternProgress]
              /\ status'.patternProgress.pattern = Text("FRONT")
              /\ status'.patternProgress.completed_rows = <<>>
              /\ ev'.kind = "writeDone"
              /\ ev'.wrote = 1]_vars

\* The write of HOME failed during a pattern: the progress of the pattern is
\* kept and the status is ERROR.
HomeWriteFailedDuringPattern ==
  /\ ev.kind = "writeFail" /\ ev.cmd.type = "HOME_SYSTEM"
  /\ status.status = "ERROR"
  /\ status.patternProgress.completed_rows # <<>>
  /\ status.patternProgress # HomePatternProgress

\* The write of HOME completed during a pattern: the progress is reset and
\* the status still that of the pattern.
HomeWrittenDuringPattern ==
  /\ ev.kind = "writeDone" /\ ev.cmd.type = "HOME_SYSTEM"
  /\ status.status = "EXECUTING_PATTERN"
  /\ status.patternProgress = HomePatternProgress

\* C34: when the configuration store fails under SAVE_CONFIG, LOAD_CONFIG
\* or GET_CONFIGS, the requester alone is sent one ERROR, no line is
\* written, the system state is as it was, and the handler is over: the next
\* line of the controller is handled as ever.
StoreFailureToldToRequester ==
  [][ev'.kind = "fsFail" =>
       /\ ev'.cmd.type \in {"SAVE_CONFIG", "LOAD_CONFIG", "GET_CONFIGS"}
       /\ sent' = <<[to |-> {ev'.ws}, type |-> "ERROR", payload |-> [message |-> ev'.error]]>>
       /\ status' = status
       /\ link' = link /\ ev'.wrote = 0
       /\ ev'.done /\ tasks' = {}
       /\ portOpen']_vars

\* The store failed under LOAD_CONFIG of one subscriber while another was
\* connected: the ERROR went to the requester only.
LoadFailedWithTwoSubscribers ==
  /\ ev.kind = "fsFail" /\ ev.cmd.type = "LOAD_CONFIG"
  /\ OpenClients = {"ws1", "ws2"}
  /\ Len(sent) = 1 /\ sent[1].type = "ERROR" /\ sent[1].to = {ev.ws}
  /\ link.by = "initialize"

\* C36: a message of a subscriber in the active set is handled at whatever
\* moment it arrives: it writes to the link or the subscriber is sent a
\* reply or an ERROR.
MessageOfSubscriberHandled ==
  (ev.kind \in {"message", "unheard"} /\ ev.ws \in clients) =>
    /\ ev.kind = "message"
    /\ \/ ev.wrote > 0
       \/ \E i \in 1..Len(sent) : sent[i].to = {ev.ws}

\* The form of a line, in the documented order: the position report, the
\* pressure pot, the state change, the keyed event (a '|' followed by a
\* segment with '='), the legacy position, the temperature, the warning,
\* the cleared limits, the reached limit, the servo report; 11 is no form.
FormOf(line) ==
  LET parts == SplitAt(line, "|")
  IN IF 1 \in PositionMatches(line) THEN 1
     ELSE IF StartsWith(line, "Pressure pot") THEN 2
     ELSE IF StartsWith(line, "State changed:") THEN 3
     ELSE IF Len(parts) >= 2 /\ \E i \in 2..Len(parts) : Includes(parts[i], "=") THEN 4
     ELSE IF StartsWith(line, "Position:") THEN 5
     ELSE IF StartsWith(line, "Temperature:") THEN 6
     ELSE IF StartsWith(line, "WARNING:") THEN 7
     ELSE IF StartsWith(line, "LIMIT_CLEAR:") THEN 8
     ELSE IF 1 \in LimitMatches(line) THEN 9
     ELSE IF 1 \in ServoMatches(line) THEN 10
     ELSE 11

\* The effect and the notification of the line's form, once.
EffectOfForm(st, line) ==
  LET m0   == Callback(StoreRawLine(st, line))
      form == FormOf(line)
  IN CASE form = 1 ->
            LET x == Whole(DigitValue(line[2]))
                y == Whole(DigitValue(line[4]))
            IN BroadcastToAll(UpdateStatus(m0, [position |-> [x |-> x, y |-> y]]),
                              "POSITION_UPDATE", [x |-> x, y |-> y])
       [] form = 2 -> UpdateStatus(m0, [pressurePotActive |-> ~Includes(line, "deactivated")])
       [] form = 3 -> StateChanged(m0, line)
       [] form = 4 -> KeyedEvent(m0, ParseStatusMessage(line))
       [] form \in {5, 6, 7} -> LegacyChain(m0, line)
       [] form = 8 -> LimitClear(m0, line)
       [] form = 9 -> LimitTrigger(m0, line[2])
       [] form = 10 ->
            LET angle == Whole(DigitValue(line[2]))
            IN BroadcastToAll(UpdateStatus(m0, [servoAngle |-> angle]),
                              "SERVO_UPDATE", [angle |-> angle])
       [] OTHER -> m0

\* C33: a line of one of the forms 1 to 10 has the effect and the
\* notification of its form once: it is not swallowed by an earlier check
\* and has no effect of another form besides.
EachFormOnce ==
  [][(ev'.kind = "serial" /\ FormOf(ev'.line) \in 1..10) =>
       /\ status' = EffectOfForm(status, ev'.line).status
       /\ sent' = EffectOfForm(status, ev'.line).sent]_vars

====
